---- MODULE Spec2Model ----
(***************************************************************************)
(* A model of the docopt engine of python_utils (src/docopt): the grammar  *)
(* parser, the argv parser, the normalizer (fix), the matcher and the      *)
(* top-level driver docopt().                                              *)
(*                                                                         *)
(* Python strings are TLA+ strings; a character is a string of length 1.   *)
(* A str that may be None (Option.short, Option.long, a leaf's _name) is   *)
(* "" when it is None: none of them is ever the empty string in the code.  *)
(* Leaf values (False/True, None, int, str, list of str) are tagged        *)
(* records.  Python objects whose identity matters live in tables: the     *)
(* leaves of the pattern tree in `tab` (a tree position holds an index),   *)
(* the leaves made by parse_argv and by single_match in `heap`.            *)
(***************************************************************************)
EXTENDS Integers, Sequences, FiniteSets, TLC

(***************************************************************************)
(* Strings                                                                 *)
(***************************************************************************)
Char(s, i) == SubSeq(s, i, i)

IsSpace(c) == c \in {" ", "\n", "\t"}

\* str.startswith
StartsWith(s, p) == Len(p) <= Len(s) /\ SubSeq(s, 1, Len(p)) = p

\* str.endswith
EndsWith(s, p) == Len(p) <= Len(s) /\ SubSeq(s, Len(s) - Len(p) + 1, Len(s)) = p

\* the position of the first character c of s at or after position i, 0 if none
RECURSIVE FindChar(_, _, _)
FindChar(s, c, i) ==
    IF i > Len(s) THEN 0
    ELSE IF Char(s, i) = c THEN i
    ELSE FindChar(s, c, i + 1)

\* str.partition("="): <<head, sep, tail>>
PartitionEq(s) ==
    LET k == FindChar(s, "=", 1)
    IN  IF k = 0 THEN <<s, "", "">>
        ELSE <<SubSeq(s, 1, k - 1), "=", SubSeq(s, k + 1, Len(s))>>

\* str.lstrip("-")
RECURSIVE LStripDash(_)
LStripDash(s) ==
    IF Len(s) > 0 /\ Char(s, 1) = "-" THEN LStripDash(Tail(s)) ELSE s

\* str.split(): the maximal runs of non-whitespace characters
RECURSIVE SplitFrom(_, _, _, _)
SplitFrom(s, i, cur, acc) ==
    IF i > Len(s) THEN (IF cur = "" THEN acc ELSE Append(acc, cur))
    ELSE IF IsSpace(Char(s, i))
         THEN SplitFrom(s, i + 1, "", IF cur = "" THEN acc ELSE Append(acc, cur))
         ELSE SplitFrom(s, i + 1, cur \o Char(s, i), acc)

Split(s) == SplitFrom(s, 1, "", <<>>)

\* " ".join(words)
RECURSIVE Join(_)
Join(ws) ==
    IF ws = <<>> THEN ""
    ELSE IF Len(ws) = 1 THEN ws[1]
    ELSE ws[1] \o " " \o Join(Tail(ws))

\* str.isupper(): some cased character, and no lowercase one
UpperChars == {"A", "B", "C", "D", "E", "F", "G", "H", "I", "J", "K", "L", "M",
               "N", "O", "P", "Q", "R", "S", "T", "U", "V", "W", "X", "Y", "Z"}

LowerChars == {"a", "b", "c", "d", "e", "f", "g", "h", "i", "j", "k", "l", "m",
               "n", "o", "p", "q", "r", "s", "t", "u", "v", "w", "x", "y", "z"}

IsUpper(s) ==
    /\ \E i \in 1..Len(s) : Char(s, i) \in UpperChars
    /\ \A i \in 1..Len(s) : Char(s, i) \notin LowerChars

(***************************************************************************)
(* Values of a leaf                                                        *)
(***************************************************************************)
VNone == [t |-> "None"]
VBool(b) == [t |-> "bool", b |-> b]
VInt(n) == [t |-> "int", n |-> n]
VStr(s) == [t |-> "str", s |-> s]
VList(l) == [t |-> "list", l |-> l]

\* the truth value of a Python object
Truthy(v) ==
    CASE v.t = "None" -> FALSE
      [] v.t = "bool" -> v.b
      [] v.t = "int" -> v.n # 0
      [] v.t = "str" -> v.s # ""
      [] v.t = "list" -> v.l # <<>>

(***************************************************************************)
(* Leaves: Argument(name, value), Command(name, value),                    *)
(* Option(short, long, argcount, value)                                    *)
(***************************************************************************)
Argument(name, value) ==
    [kind |-> "Argument", name |-> name, short |-> "", long |-> "",
     argcount |-> 0, value |-> value]

Command(name, value) ==
    [kind |-> "Command", name |-> name, short |-> "", long |-> "",
     argcount |-> 0, value |-> value]

\* Option.__init__ keeping the value it is given
OptionKeepingFalse(short, long, argcount, value) ==
    [kind |-> "Option", name |-> "", short |-> short, long |-> long,
     argcount |-> argcount, value |-> value]

\* Option.__init__: value False becomes None when argcount is not 0
Option(short, long, argcount, value) ==
    [kind |-> "Option", name |-> "", short |-> short, long |-> long,
     argcount |-> argcount,
     value |-> IF value = VBool(FALSE) /\ argcount # 0 THEN VNone ELSE value]

\* Pattern.name, Option.name (long or short)
Name(leaf) ==
    IF leaf.kind = "Option"
    THEN (IF leaf.long # "" THEN leaf.long ELSE leaf.short)
    ELSE leaf.name

(***************************************************************************)
(* Branches; a leaf position of a tree is Ref(i), i an index of the table  *)
(***************************************************************************)
Ref(i) == [kind |-> "Leaf", ref |-> i, children |-> <<>>]
Branch(kind, children) == [kind |-> kind, ref |-> 0, children |-> children]
IsLeafNode(n) == n.kind = "Leaf"

(***************************************************************************)
(* Tokens                                                                  *)
(***************************************************************************)
\* re.sub(r"([\[\]\(\)\|]|\.\.\.)", r" \1 ", source)
RECURSIVE SpaceOut(_, _)
SpaceOut(s, i) ==
    IF i > Len(s) THEN ""
    ELSE IF Char(s, i) \in {"[", "]", "(", ")", "|"}
         THEN " " \o Char(s, i) \o " " \o SpaceOut(s, i + 1)
    ELSE IF i + 2 <= Len(s) /\ SubSeq(s, i, i + 2) = "..."
         THEN " ... " \o SpaceOut(s, i + 3)
    ELSE Char(s, i) \o SpaceOut(s, i + 1)

\* the end of the run of non-whitespace characters that starts at p
RECURSIVE RunEnd(_, _)
RunEnd(s, p) ==
    IF p + 1 <= Len(s) /\ ~IsSpace(Char(s, p + 1)) THEN RunEnd(s, p + 1) ELSE p

\* \S*<.*?> at p: the greedy \S* backtracks from the end of the run to the last
\* "<" that a ">" follows on the same line; 0 when there is no match, else the
\* position of the closing ">"
RECURSIVE AngleEnd(_, _, _)
AngleEnd(s, p, q) ==
    IF q < p THEN 0
    ELSE IF Char(s, q) = "<"
              /\ FindChar(s, ">", q + 1) # 0
              /\ (FindChar(s, "\n", q + 1) = 0
                  \/ FindChar(s, "\n", q + 1) > FindChar(s, ">", q + 1))
         THEN FindChar(s, ">", q + 1)
    ELSE AngleEnd(s, p, q - 1)

\* [s for s in re.split(r"\s+|(\S*<.*?>)", source) if s]
RECURSIVE SplitPattern(_, _, _)
SplitPattern(s, p, acc) ==
    IF p > Len(s) THEN acc
    ELSE IF IsSpace(Char(s, p)) THEN SplitPattern(s, p + 1, acc)
    ELSE LET e == RunEnd(s, p)
             r == AngleEnd(s, p, e)
         IN  IF r # 0
             THEN SplitPattern(s, r + 1, Append(acc, SubSeq(s, p, r)))
             ELSE SplitPattern(s, e + 1, Append(acc, SubSeq(s, p, e)))

\* Tokens.from_pattern
from_pattern(source) == SplitPattern(SpaceOut(source, 1), 1, <<>>)

\* Tokens.current: None is ""
current(tokens) == IF tokens = <<>> THEN "" ELSE tokens[1]

\* formal_usage
formal_usage(section) ==
    LET pu == Split(section)
        words == [i \in 1..(Len(pu) - 1) |->
                     IF pu[i + 1] = pu[1] THEN ") | (" ELSE pu[i + 1]]
    IN  "( " \o Join(words) \o " )"

(***************************************************************************)
(* parse_long and parse_shorts.  error is tokens.error, the kind of error  *)
(* the token stream raises: "DocoptLanguageError" for a usage pattern,     *)
(* "DocoptExit" for argv.  The result is [toks, options, err, out]: the    *)
(* tokens left, the registry (parse_long and parse_shorts append to it),   *)
(* the error raised ("" when none) and the Option objects made.            *)
(***************************************************************************)
DocoptExit == "DocoptExit"
DocoptLanguageError == "DocoptLanguageError"
AssertionError == "AssertionError"

\* parse_long written to take the first of several candidates
parse_long_first_candidate(tokens, options, error) ==
    LET part == PartitionEq(tokens[1])
        long == part[1]
        eq == part[2]
        value == IF eq = "" /\ part[3] = "" THEN VNone ELSE VStr(part[3])
        rest == Tail(tokens)
        exact == SelectSeq(options, LAMBDA o : o.long = long)
        candidates == IF error = DocoptExit /\ exact = <<>>
                      THEN SelectSeq(options,
                               LAMBDA o : o.long # "" /\ StartsWith(o.long, long))
                      ELSE exact
        similar == IF Len(candidates) > 1 THEN <<candidates[1]>> ELSE candidates
    IN  IF Len(similar) > 1
        THEN [toks |-> rest, options |-> options, err |-> error, out |-> <<>>]
        ELSE IF Len(similar) < 1
        THEN LET argcount == IF eq = "=" THEN 1 ELSE 0
                 o == Option("", long, argcount, VBool(FALSE))
             IN  [toks |-> rest, options |-> Append(options, o), err |-> "",
                  out |-> <<IF error = DocoptExit
                            THEN Option("", long, argcount,
                                        IF argcount # 0 THEN value ELSE VBool(TRUE))
                            ELSE o>>]
        ELSE LET o == similar[1]
             IN  IF o.argcount = 0
                 THEN IF value # VNone
                      THEN [toks |-> rest, options |-> options, err |-> error,
                            out |-> <<>>]
                      ELSE [toks |-> rest, options |-> options, err |-> "",
                            out |-> <<IF error = DocoptExit
                                      THEN [o EXCEPT !.value = VBool(TRUE)]
                                      ELSE o>>]
                 ELSE IF value = VNone /\ (rest = <<>> \/ rest[1] = "--")
                      THEN [toks |-> rest, options |-> options, err |-> error,
                            out |-> <<>>]
                      ELSE LET v == IF value = VNone THEN VStr(rest[1]) ELSE value
                               rest2 == IF value = VNone THEN Tail(rest) ELSE rest
                           IN  [toks |-> rest2, options |-> options, err |-> "",
                                out |-> <<IF error = DocoptExit
                                          THEN [o EXCEPT !.value = v]
                                          ELSE o>>]

\* parse_long written to go on without the argument an option requires
parse_long_without_value(tokens, options, error) ==
    LET part == PartitionEq(tokens[1])
        long == part[1]
        eq == part[2]
        value == IF eq = "" /\ part[3] = "" THEN VNone ELSE VStr(part[3])
        rest == Tail(tokens)
        exact == SelectSeq(options, LAMBDA o : o.long = long)
        similar == IF error = DocoptExit /\ exact = <<>>
                   THEN SelectSeq(options,
                            LAMBDA o : o.long # "" /\ StartsWith(o.long, long))
                   ELSE exact
    IN  IF Len(similar) > 1
        THEN [toks |-> rest, options |-> options, err |-> error, out |-> <<>>]
        ELSE IF Len(similar) < 1
        THEN LET argcount == IF eq = "=" THEN 1 ELSE 0
                 o == Option("", long, argcount, VBool(FALSE))
             IN  [toks |-> rest, options |-> Append(options, o), err |-> "",
                  out |-> <<IF error = DocoptExit
                            THEN Option("", long, argcount,
                                        IF argcount # 0 THEN value ELSE VBool(TRUE))
                            ELSE o>>]
        ELSE LET o == similar[1]
             IN  IF o.argcount = 0
                 THEN IF value # VNone
                      THEN [toks |-> rest, options |-> options, err |-> error,
                            out |-> <<>>]
                      ELSE [toks |-> rest, options |-> options, err |-> "",
                            out |-> <<IF error = DocoptExit
                                      THEN [o EXCEPT !.value = VBool(TRUE)]
                                      ELSE o>>]
                 ELSE IF value = VNone /\ (rest = <<>> \/ rest[1] = "--")
                      THEN [toks |-> rest, options |-> options, err |-> "",
                            out |-> <<o>>]
                      ELSE LET v == IF value = VNone THEN VStr(rest[1]) ELSE value
                               rest2 == IF value = VNone THEN Tail(rest) ELSE rest
                           IN  [toks |-> rest2, options |-> options, err |-> "",
                                out |-> <<IF error = DocoptExit
                                          THEN [o EXCEPT !.value = v]
                                          ELSE o>>]

\* parse_long
parse_long(tokens, options, error) ==
    LET part == PartitionEq(tokens[1])
        long == part[1]
        eq == part[2]
        value == IF eq = "" /\ part[3] = "" THEN VNone ELSE VStr(part[3])
        rest == Tail(tokens)
        exact == SelectSeq(options, LAMBDA o : o.long = long)
        similar == IF error = DocoptExit /\ exact = <<>>
                   THEN SelectSeq(options,
                            LAMBDA o : o.long # "" /\ StartsWith(o.long, long))
                   ELSE exact
    IN  IF Len(similar) > 1
        THEN [toks |-> rest, options |-> options, err |-> error, out |-> <<>>]
        ELSE IF Len(similar) < 1
        THEN LET argcount == IF eq = "=" THEN 1 ELSE 0
                 o == Option("", long, argcount, VBool(FALSE))
             IN  [toks |-> rest, options |-> Append(options, o), err |-> "",
                  out |-> <<IF error = DocoptExit
                            THEN Option("", long, argcount,
                                        IF argcount # 0 THEN value ELSE VBool(TRUE))
                            ELSE o>>]
        ELSE LET o == similar[1]
             IN  IF o.argcount = 0
                 THEN IF value # VNone
                      THEN [toks |-> rest, options |-> options, err |-> error,
                            out |-> <<>>]
                      ELSE [toks |-> rest, options |-> options, err |-> "",
                            out |-> <<IF error = DocoptExit
                                      THEN [o EXCEPT !.value = VBool(TRUE)]
                                      ELSE o>>]
                 ELSE IF value = VNone /\ (rest = <<>> \/ rest[1] = "--")
                      THEN [toks |-> rest, options |-> options, err |-> error,
                            out |-> <<>>]
                      ELSE LET v == IF value = VNone THEN VStr(rest[1]) ELSE value
                               rest2 == IF value = VNone THEN Tail(rest) ELSE rest
                           IN  [toks |-> rest2, options |-> options, err |-> "",
                                out |-> <<IF error = DocoptExit
                                          THEN [o EXCEPT !.value = v]
                                          ELSE o>>]

\* the while loop of parse_shorts: left is the rest of the run of shorts
RECURSIVE parse_shorts_loop(_, _, _, _, _)
parse_shorts_loop(left, tokens, options, error, parsed) ==
    IF left = ""
    THEN [toks |-> tokens, options |-> options, err |-> "", out |-> parsed]
    ELSE LET short == "-" \o Char(left, 1)
             left1 == Tail(left)
             similar == SelectSeq(options, LAMBDA o : o.short = short)
         IN  IF Len(similar) > 1
             THEN [toks |-> tokens, options |-> options, err |-> error,
                   out |-> <<>>]
             ELSE IF Len(similar) < 1
             THEN LET o == Option(short, "", 0, VBool(FALSE))
                  IN  parse_shorts_loop(left1, tokens, Append(options, o), error,
                          Append(parsed,
                                 IF error = DocoptExit
                                 THEN Option(short, "", 0, VBool(TRUE))
                                 ELSE o))
             ELSE LET o == Option(short, similar[1].long, similar[1].argcount,
                                  similar[1].value)
                  IN  IF o.argcount # 0
                      THEN IF left1 = ""
                           THEN IF tokens = <<>> \/ tokens[1] = "--"
                                THEN [toks |-> tokens, options |-> options,
                                      err |-> error, out |-> <<>>]
                                ELSE parse_shorts_loop("", Tail(tokens), options,
                                         error,
                                         Append(parsed,
                                                IF error = DocoptExit
                                                THEN [o EXCEPT !.value = VStr(tokens[1])]
                                                ELSE o))
                           ELSE parse_shorts_loop("", tokens, options, error,
                                    Append(parsed,
                                           IF error = DocoptExit
                                           THEN [o EXCEPT !.value = VStr(left1)]
                                           ELSE o))
                      ELSE parse_shorts_loop(left1, tokens, options, error,
                               Append(parsed,
                                      IF error = DocoptExit
                                      THEN [o EXCEPT !.value = VBool(TRUE)]
                                      ELSE o))

\* parse_shorts that stops after the first character of the run
parse_shorts_first_char(tokens, options, error) ==
    parse_shorts_loop(Char(LStripDash(tokens[1]), 1), Tail(tokens), options, error, <<>>)

parse_shorts(tokens, options, error) ==
    parse_shorts_loop(LStripDash(tokens[1]), Tail(tokens), options, error, <<>>)

(***************************************************************************)
(* The grammar parser.  A parse function takes the parser's state          *)
(* [toks, options, tab] and returns [toks, options, tab, err, res]: res    *)
(* the list of patterns parsed, err the error raised ("" when none).  tab  *)
(* is the table of the leaf objects made so far: every leaf made is a new  *)
(* object, and a tree position holds its index.                            *)
(***************************************************************************)
Raise(st, error) ==
    [toks |-> st.toks, options |-> st.options, tab |-> st.tab, err |-> error,
     res |-> <<>>]

Return(toks, options, tab, res) ==
    [toks |-> toks, options |-> options, tab |-> tab, err |-> "", res |-> res]

\* the leaves `out` as new objects of the table, and the positions that hold them
NewLeaves(tab, out) == [i \in 1..Len(out) |-> Ref(Len(tab) + i)]

RECURSIVE parse_expr(_), parse_expr_loop(_, _), parse_seq(_), parse_seq_loop(_, _),
          parse_atom(_)

\* [Required(*seq)] if len(seq) > 1 else seq
AsOne(seq) == IF Len(seq) > 1 THEN <<Branch("Required", seq)>> ELSE seq

\* parse_expr, after its first parse_seq returned r
parse_expr_first(r) ==
    IF r.err # "" THEN r
    ELSE IF current(r.toks) # "|" THEN r
    ELSE parse_expr_loop(r, AsOne(r.res))

parse_expr(st) == parse_expr_first(parse_seq(st))

\* the body of the while loop of parse_expr, after its parse_seq returned r
parse_expr_body(r, result) ==
    IF r.err # "" THEN r ELSE parse_expr_loop(r, result \o AsOne(r.res))

\* the while loop of parse_expr
parse_expr_loop(st, result) ==
    IF current(st.toks) = "|"
    THEN parse_expr_body(parse_seq([st EXCEPT !.toks = Tail(st.toks)]), result)
    ELSE Return(st.toks, st.options, st.tab,
                IF Len(result) > 1 THEN <<Branch("Either", result)>> ELSE result)

parse_seq(st) == parse_seq_loop(st, <<>>)

\* the body of the while loop of parse_seq, after parse_atom returned r
parse_seq_body(r, result) ==
    IF r.err # "" THEN r
    ELSE IF current(r.toks) = "..."
    THEN parse_seq_loop([r EXCEPT !.toks = Tail(r.toks)],
                        Append(result, Branch("OneOrMore", r.res)))
    ELSE parse_seq_loop(r, result \o r.res)

\* the while loop of parse_seq
parse_seq_loop(st, result) ==
    IF st.toks = <<>> \/ st.toks[1] \in {"]", ")", "|"}
    THEN Return(st.toks, st.options, st.tab, result)
    ELSE parse_seq_body(parse_atom(st), result)

\* parse_atom at "(" or "[", after parse_expr returned r
parse_atom_group(token, r) ==
    LET matching == IF token = "(" THEN ")" ELSE "]"
        pattern == IF token = "(" THEN "Required" ELSE "Optional"
    IN  IF r.err # "" THEN r
        ELSE IF r.toks = <<>> \/ r.toks[1] # matching
        THEN Raise(r, DocoptLanguageError)
        ELSE Return(Tail(r.toks), r.options, r.tab, <<Branch(pattern, r.res)>>)

\* parse_atom at an option, after parse_long or parse_shorts returned r
parse_atom_options(st, r) ==
    IF r.err # "" THEN Raise(st, r.err)
    ELSE Return(r.toks, r.options, st.tab \o r.out, NewLeaves(st.tab, r.out))

\* parse_atom at an argument or a command: the leaf made
parse_atom_leaf(st, leaf) ==
    Return(Tail(st.toks), st.options, Append(st.tab, leaf), <<Ref(Len(st.tab) + 1)>>)

parse_atom(st) ==
    IF st.toks[1] \in {"(", "["}
    THEN parse_atom_group(st.toks[1], parse_expr([st EXCEPT !.toks = Tail(st.toks)]))
    ELSE IF st.toks[1] = "options"
    THEN Return(Tail(st.toks), st.options, st.tab,
                <<Branch("OptionsShortcut", <<>>)>>)
    ELSE IF StartsWith(st.toks[1], "--") /\ st.toks[1] # "--"
    THEN parse_atom_options(st, parse_long(st.toks, st.options, DocoptLanguageError))
    ELSE IF StartsWith(st.toks[1], "-") /\ st.toks[1] \notin {"-", "--"}
    THEN parse_atom_options(st, parse_shorts(st.toks, st.options, DocoptLanguageError))
    ELSE IF (StartsWith(st.toks[1], "<") /\ EndsWith(st.toks[1], ">"))
            \/ IsUpper(st.toks[1])
    THEN parse_atom_leaf(st, Argument(st.toks[1], VNone))
    ELSE parse_atom_leaf(st, Command(st.toks[1], VBool(FALSE)))

\* parse_pattern written without the check of the tokens left
parse_pattern_ignoring_rest(r) ==
    IF r.err # ""
    THEN [tree |-> Branch("Required", <<>>), tab |-> <<>>,
          options |-> r.options, err |-> r.err]
    ELSE [tree |-> Branch("Required", r.res), tab |-> r.tab,
          options |-> r.options, err |-> ""]

\* parse_pattern, after parse_expr returned r
parse_pattern_result(r) ==
    IF r.err # ""
    THEN [tree |-> Branch("Required", <<>>), tab |-> <<>>,
          options |-> r.options, err |-> r.err]
    ELSE IF r.toks # <<>>
    THEN [tree |-> Branch("Required", <<>>), tab |-> <<>>,
          options |-> r.options, err |-> DocoptLanguageError]
    ELSE [tree |-> Branch("Required", r.res), tab |-> r.tab,
          options |-> r.options, err |-> ""]

\* parse_pattern: [tree, tab, options, err]
parse_pattern(source, options) ==
    parse_pattern_result(parse_expr([toks |-> from_pattern(source),
                                     options |-> options, tab |-> <<>>]))

(***************************************************************************)
(* parse_argv: [leaves, err], the leaf objects made, in order              *)
(***************************************************************************)
\* the list written for the tokens after a leading --, which is dropped
PositionalsDroppingDashes(tokens) ==
    LET rest == IF tokens # <<>> /\ tokens[1] = "--" THEN Tail(tokens) ELSE tokens
    IN  [i \in 1..Len(rest) |-> Argument("", VStr(rest[i]))]

\* [Argument(None, v) for v in tokens]
Positionals(tokens) == [i \in 1..Len(tokens) |-> Argument("", VStr(tokens[i]))]

RECURSIVE parse_argv_loop(_, _, _, _)
parse_argv_loop(tokens, options, options_first, parsed) ==
    IF tokens = <<>> THEN [leaves |-> parsed, err |-> ""]
    ELSE IF tokens[1] = "--"
    THEN [leaves |-> parsed \o Positionals(tokens), err |-> ""]
    ELSE IF StartsWith(tokens[1], "--")
    THEN LET r == parse_long(tokens, options, DocoptExit)
         IN  IF r.err # "" THEN [leaves |-> <<>>, err |-> r.err]
             ELSE parse_argv_loop(r.toks, r.options, options_first, parsed \o r.out)
    ELSE IF StartsWith(tokens[1], "-") /\ tokens[1] # "-"
    THEN LET r == parse_shorts(tokens, options, DocoptExit)
         IN  IF r.err # "" THEN [leaves |-> <<>>, err |-> r.err]
             ELSE parse_argv_loop(r.toks, r.options, options_first, parsed \o r.out)
    ELSE IF options_first
    THEN [leaves |-> parsed \o Positionals(tokens), err |-> ""]
    ELSE parse_argv_loop(Tail(tokens), options, options_first,
                         Append(parsed, Argument("", VStr(tokens[1]))))

\* parse_argv written without the test of options_first
parse_argv_intermixed(tokens, options, options_first) ==
    parse_argv_loop(tokens, options, FALSE, <<>>)

parse_argv(tokens, options, options_first) ==
    parse_argv_loop(tokens, options, options_first, <<>>)

(***************************************************************************)
(* Option.parse and parse_defaults.  An options section is given as the    *)
(* list of its fragments (one per line that starts with a hyphen, with the *)
(* lines that continue it), a fragment as [options, default]: the text     *)
(* before the first double space, and the X of "[default: X]" in the       *)
(* description (NoDefault when the description has none).                  *)
(***************************************************************************)
NoDefault == VNone

\* str.replace(",", " ").replace("=", " ")
RECURSIVE ReplaceSeps(_)
ReplaceSeps(s) ==
    IF s = "" THEN ""
    ELSE (IF Char(s, 1) \in {",", "="} THEN " " ELSE Char(s, 1))
         \o ReplaceSeps(Tail(s))

\* the for loop of Option.parse over options.split(): [short, long, argcount]
RECURSIVE OptionSpellings(_, _)
OptionSpellings(words, acc) ==
    IF words = <<>> THEN acc
    ELSE OptionSpellings(Tail(words),
            IF StartsWith(words[1], "--") THEN [acc EXCEPT !.long = words[1]]
            ELSE IF StartsWith(words[1], "-") THEN [acc EXCEPT !.short = words[1]]
            ELSE [acc EXCEPT !.argcount = 1])

\* Option.parse
Option_parse(fragment) ==
    LET sp == OptionSpellings(Split(ReplaceSeps(fragment.options)),
                              [short |-> "", long |-> "", argcount |-> 0])
    IN  Option(sp.short, sp.long, sp.argcount,
               IF sp.argcount # 0 THEN fragment.default ELSE VBool(FALSE))

\* parse_defaults: the options of every options section, in order
RECURSIVE parse_defaults(_)
parse_defaults(sections) ==
    IF sections = <<>> THEN <<>>
    ELSE [i \in 1..Len(sections[1]) |-> Option_parse(sections[1][i])]
         \o parse_defaults(Tail(sections))

(***************************************************************************)
(* flat                                                                    *)
(***************************************************************************)
\* pattern.flat(): the leaf objects of the tree, in order
RECURSIVE flat(_), flatAll(_)
flat(node) == IF IsLeafNode(node) THEN <<node.ref>> ELSE flatAll(node.children)

flatAll(nodes) ==
    IF nodes = <<>> THEN <<>> ELSE flat(nodes[1]) \o flatAll(Tail(nodes))

\* pattern.flat(Option)
flatOptions(node, tab) == SelectSeq(flat(node), LAMBDA r : tab[r].kind = "Option")

\* len(pattern.flat(OptionsShortcut))
RECURSIVE countShortcuts(_), countShortcutsAll(_)
countShortcuts(node) ==
    IF node.kind = "OptionsShortcut" THEN 1
    ELSE IF IsLeafNode(node) THEN 0
    ELSE countShortcutsAll(node.children)

countShortcutsAll(nodes) ==
    IF nodes = <<>> THEN 0
    ELSE countShortcuts(nodes[1]) + countShortcutsAll(Tail(nodes))

\* the values of a list, as a set
Range(f) == {f[i] : i \in DOMAIN f}

(***************************************************************************)
(* docopt(), the loop over pattern.flat(OptionsShortcut): each shortcut    *)
(* gets list(doc_options - pattern_options) as children, new objects made  *)
(* by a new parse_defaults(doc).  The two are sets (of leaves equal when   *)
(* their repr is equal): ordering is the order in which the set of the     *)
(* doc's options is iterated.  pattern_options is computed inside the      *)
(* loop, from the tree as it is then.                                      *)
(***************************************************************************)
\* the n-th OptionsShortcut of the tree (in flat order) given `kids` as children
RECURSIVE setShortcut(_, _, _), setShortcutAll(_, _, _)
setShortcut(node, n, kids) ==
    IF node.kind = "OptionsShortcut"
    THEN (IF n = 1 THEN [node EXCEPT !.children = kids] ELSE node)
    ELSE IF IsLeafNode(node) THEN node
    ELSE [node EXCEPT !.children = setShortcutAll(node.children, n, kids)]

setShortcutAll(nodes, n, kids) ==
    IF nodes = <<>> THEN <<>>
    ELSE <<setShortcut(nodes[1], n, kids)>>
         \o setShortcutAll(Tail(nodes), n - countShortcuts(nodes[1]), kids)

RECURSIVE populate_shortcuts(_, _, _, _)
populate_shortcuts(pat, ordering, k, n) ==
    IF k > n THEN pat
    ELSE LET pattern_options == {pat.tab[r] : r \in Range(flatOptions(pat.tree, pat.tab))}
             kids == SelectSeq(ordering, LAMBDA o : o \notin pattern_options)
         IN  populate_shortcuts(
                 [tree |-> setShortcut(pat.tree, k, NewLeaves(pat.tab, kids)),
                  tab |-> pat.tab \o kids],
                 ordering, k + 1, n)

\* the orders in which a set of leaves can be iterated
Orderings(S) ==
    {f \in [1..Cardinality(S) -> S] : \A i, j \in 1..Cardinality(S) : f[i] = f[j] => i = j}

(***************************************************************************)
(* The normalizer: fix_identities, transform, fix_repeating_arguments      *)
(***************************************************************************)
\* uniq[uniq.index(child)]: the first object of flat() equal to the object r
RECURSIVE FirstEqual(_, _, _)
FirstEqual(refs, tab, r) ==
    IF tab[refs[1]] = tab[r] THEN refs[1] ELSE FirstEqual(Tail(refs), tab, r)

RECURSIVE fix_identities(_, _, _)
fix_identities(node, uniq, tab) ==
    IF IsLeafNode(node) THEN Ref(FirstEqual(uniq, tab, node.ref))
    ELSE [node EXCEPT !.children =
             [i \in 1..Len(node.children) |-> fix_identities(node.children[i], uniq, tab)]]

\* the position of the first branch of a list of patterns, 0 if none
RECURSIVE FirstBranch(_, _)
FirstBranch(children, i) ==
    IF i > Len(children) THEN 0
    ELSE IF ~IsLeafNode(children[i]) THEN i
    ELSE FirstBranch(children, i + 1)

\* child.children, taken once
Once(s) == s

\* child.children * 2
Twice(s) == s \o s

\* transform: the lists of leaves of the expanded pattern
RECURSIVE transform_loop(_, _)
transform_loop(groups, result) ==
    IF groups = <<>> THEN result
    ELSE LET children == groups[1]
             i == FirstBranch(children, 1)
         IN  IF i = 0
             THEN transform_loop(Tail(groups), Append(result, children))
             ELSE LET child == children[i]
                      rest == SubSeq(children, 1, i - 1)
                              \o SubSeq(children, i + 1, Len(children))
                  IN  IF child.kind = "Either"
                      THEN transform_loop(
                               Tail(groups)
                               \o [j \in 1..Len(child.children) |->
                                      <<child.children[j]>> \o rest],
                               result)
                      ELSE IF child.kind = "OneOrMore"
                      THEN transform_loop(
                               Append(Tail(groups), Twice(child.children) \o rest),
                               result)
                      ELSE transform_loop(
                               Append(Tail(groups), child.children \o rest),
                               result)

transform(tree) == transform_loop(<<<<tree>>>>, <<>>)

\* the inner loop written without the split of a default: [] or 0 whatever the
\* value was
FixValueEmpty(e) ==
    IF e.kind = "Command" \/ (e.kind = "Option" /\ e.argcount = 0)
    THEN [e EXCEPT !.value = VInt(0)]
    ELSE [e EXCEPT !.value = VList(<<>>)]

\* the inner loop written to count on from a count it finds
FixValueCountingOn(e) ==
    IF e.kind = "Command" \/ (e.kind = "Option" /\ e.argcount = 0)
    THEN [e EXCEPT !.value = IF e.value.t = "int" THEN VInt(e.value.n + 1)
                              ELSE VInt(0)]
    ELSE IF e.value = VNone THEN [e EXCEPT !.value = VList(<<>>)]
    ELSE IF e.value.t = "str" THEN [e EXCEPT !.value = VList(Split(e.value.s))]
    ELSE e

\* the body of the inner loop of fix_repeating_arguments, for the leaf e
FixValue(e) ==
    LET listed == IF e.kind = "Argument" \/ (e.kind = "Option" /\ e.argcount # 0)
                  THEN (IF e.value = VNone THEN [e EXCEPT !.value = VList(<<>>)]
                        ELSE IF e.value.t = "str"
                        THEN [e EXCEPT !.value = VList(Split(e.value.s))]
                        ELSE e)
                  ELSE e
    IN  IF e.kind = "Command" \/ (e.kind = "Option" /\ e.argcount = 0)
        THEN [listed EXCEPT !.value = VInt(0)]
        ELSE listed

\* case.count(child)
Count(case, tab, r) == Cardinality({i \in 1..Len(case) : tab[case[i].ref] = tab[r]})

RECURSIVE FixEach(_, _)
FixEach(es, tab) ==
    IF es = <<>> THEN tab
    ELSE FixEach(Tail(es), [tab EXCEPT ![es[1].ref] = FixValue(tab[es[1].ref])])

RECURSIVE FixCases(_, _)
FixCases(either, tab) ==
    IF either = <<>> THEN tab
    ELSE LET case == either[1]
             es == SelectSeq(case, LAMBDA c : Count(case, tab, c.ref) > 1)
         IN  FixCases(Tail(either), FixEach(es, tab))

fix_repeating_arguments(tree, tab) == FixCases(transform(tree), tab)

\* BranchPattern.fix
fix(pat) ==
    LET tree == fix_identities(pat.tree, flat(pat.tree), pat.tab)
    IN  [tree |-> tree, tab |-> fix_repeating_arguments(tree, pat.tab)]

(***************************************************************************)
(* The matcher.  left and collected are lists of objects of the heap (a    *)
(* list of leaves; an object is its index): the leaves of the pattern      *)
(* tree first (a tree position Ref(i) holds the object i), then the leaves *)
(* of parse_argv, then the Argument and Command objects single_match       *)
(* makes.  A match returns                                                 *)
(* [m, l, c, h, err]: matched, left, collected, the heap after the call    *)
(* (a match assigns to the value of objects of left and collected) and the *)
(* error raised ("" when none).                                            *)
(***************************************************************************)
Outcome(m, l, c, h) == [m |-> m, l |-> l, c |-> c, h |-> h, err |-> ""]

\* left[(pos + 1):]: the elements before pos are dropped as well
RemoveUpTo(left, pos) == SubSeq(left, pos + 1, Len(left))

\* left[:pos] + left[(pos + 1):]
RemoveAt(left, pos) == SubSeq(left, 1, pos - 1) \o SubSeq(left, pos + 1, Len(left))

\* the first position of left that holds an object of the set S, 0 if none
RECURSIVE FirstPos(_, _, _)
FirstPos(left, S, i) ==
    IF i > Len(left) THEN 0
    ELSE IF left[i] \in S THEN i
    ELSE FirstPos(left, S, i + 1)

\* Argument.single_match: the position (0 for None), and the object matched
Argument_single_match(self, left, h) ==
    LET n == FirstPos(left, {o \in Range(left) : h[o].kind = "Argument"}, 1)
    IN  [pos |-> n, new |-> TRUE,
         match |-> IF n = 0 THEN self ELSE Argument(self.name, h[left[n]].value)]

\* Command.single_match without the break: any Argument of left is looked at
Command_single_match_any(self, left, h) ==
    LET n == FirstPos(left, {o \in Range(left) : h[o].kind = "Argument"
                                                  /\ h[o].value = VStr(self.name)}, 1)
    IN  [pos |-> n, new |-> TRUE, match |-> Command(self.name, VBool(TRUE))]

\* Command.single_match: only the first Argument of left is looked at
Command_single_match(self, left, h) ==
    LET n == FirstPos(left, {o \in Range(left) : h[o].kind = "Argument"}, 1)
        hit == n # 0 /\ h[left[n]].value = VStr(self.name)
    IN  [pos |-> IF hit THEN n ELSE 0, new |-> TRUE,
         match |-> Command(self.name, VBool(TRUE))]

\* Option.single_match looking at the first object of left only
Option_single_match_first(self, left, h) ==
    LET n == IF left # <<>> /\ Name(self) = Name(h[left[1]]) THEN 1 ELSE 0
    IN  [pos |-> n, new |-> FALSE, match |-> IF n = 0 THEN self ELSE h[left[n]]]

\* Option.single_match taking the first option of left, whatever its name
Option_single_match_any(self, left, h) ==
    LET n == FirstPos(left, {o \in Range(left) : h[o].kind = "Option"}, 1)
    IN  [pos |-> n, new |-> FALSE, match |-> IF n = 0 THEN self ELSE h[left[n]]]

\* Option.single_match: the object matched is the object of left itself
Option_single_match(self, left, h) ==
    LET n == FirstPos(left, {o \in Range(left) : Name(self) = Name(h[o])}, 1)
    IN  [pos |-> n, new |-> FALSE, match |-> IF n = 0 THEN self ELSE h[left[n]]]

single_match(self, left, h) ==
    CASE self.kind = "Argument" -> Argument_single_match(self, left, h)
      [] self.kind = "Command" -> Command_single_match(self, left, h)
      [] self.kind = "Option" -> Option_single_match(self, left, h)

\* isinstance(v, int): a bool is an int
IsInstanceInt(v) == v.t \in {"int", "bool"}

\* v + 1
PlusOne(v) == VInt((IF v.t = "bool" THEN (IF v.b THEN 1 ELSE 0) ELSE v.n) + 1)

\* LeafPattern.match written to bind in the leaf of the tree itself: self is
\* what is collected and what receives the value
LeafPattern_match_stamping(ref, left, collected, h) ==
    LET self == h[ref]
        sm == single_match(self, left, h)
    IN  IF sm.pos = 0 THEN Outcome(FALSE, left, collected, h)
        ELSE
        LET left_ == RemoveAt(left, sm.pos)
            same_name == SelectSeq(collected, LAMBDA a : Name(h[a]) = Name(self))
            obj == ref
            \* the heap with the leaf of the tree holding value v
            WithMatch(v) == [h EXCEPT ![obj].value = v]
        IN  IF self.value.t = "int" /\ Len(same_name) > 0
            THEN Outcome(TRUE, left_, collected,
                         IF IsInstanceInt(h[same_name[1]].value)
                         THEN [h EXCEPT ![same_name[1]].value = PlusOne(@)]
                         ELSE h)
            ELSE IF self.value.t = "int"
            THEN Outcome(TRUE, left_, Append(collected, obj), WithMatch(VInt(1)))
            ELSE IF same_name # <<>> /\ self.value.t = "list"
            THEN Outcome(TRUE, left_, collected,
                         IF sm.match.value.t = "str"
                            /\ h[same_name[1]].value.t = "list"
                         THEN [h EXCEPT ![same_name[1]].value =
                                  VList(@.l \o <<sm.match.value.s>>)]
                         ELSE h)
            ELSE IF self.value.t = "list"
            THEN Outcome(TRUE, left_, Append(collected, obj),
                         WithMatch(IF sm.match.value.t = "str"
                                   THEN VList(<<sm.match.value.s>>)
                                   ELSE sm.match.value))
            ELSE Outcome(TRUE, left_, Append(collected, obj),
                         WithMatch(sm.match.value))

\* LeafPattern.match.  The object matched is an object of left (an Option) or a
\* new one (an Argument, a Command), which enters the heap when it is collected.
LeafPattern_match(ref, left, collected, h) ==
    LET self == h[ref]
        sm == single_match(self, left, h)
    IN  IF sm.pos = 0 THEN Outcome(FALSE, left, collected, h)
        ELSE
        LET left_ == RemoveAt(left, sm.pos)
            same_name == SelectSeq(collected, LAMBDA a : Name(h[a]) = Name(self))
            obj == IF sm.new THEN Len(h) + 1 ELSE left[sm.pos]
            \* the heap with the matched object holding value v
            WithMatch(v) == IF sm.new THEN Append(h, [sm.match EXCEPT !.value = v])
                            ELSE [h EXCEPT ![obj].value = v]
        IN  IF self.value.t = "int" /\ Len(same_name) > 0
            THEN Outcome(TRUE, left_, collected,
                         IF IsInstanceInt(h[same_name[1]].value)
                         THEN [h EXCEPT ![same_name[1]].value = PlusOne(@)]
                         ELSE h)
            ELSE IF self.value.t = "int"
            THEN Outcome(TRUE, left_, Append(collected, obj), WithMatch(VInt(1)))
            ELSE IF same_name # <<>> /\ self.value.t = "list"
            THEN Outcome(TRUE, left_, collected,
                         IF sm.match.value.t = "str"
                            /\ h[same_name[1]].value.t = "list"
                         THEN [h EXCEPT ![same_name[1]].value =
                                  VList(@.l \o <<sm.match.value.s>>)]
                         ELSE h)
            ELSE IF self.value.t = "list"
            THEN Outcome(TRUE, left_, Append(collected, obj),
                         WithMatch(IF sm.match.value.t = "str"
                                   THEN VList(<<sm.match.value.s>>)
                                   ELSE sm.match.value))
            ELSE Outcome(TRUE, left_, Append(collected, obj),
                         WithMatch(sm.match.value))

\* l_ == l, of two lists of objects: the same object, or objects of equal repr
ListEq(l1, l2, h) ==
    /\ Len(l1) = Len(l2)
    /\ \A i \in 1..Len(l1) : l1[i] = l2[i] \/ h[l1[i]] = h[l2[i]]

\* min written with <=: the last of the least
RECURSIVE MinOutcomeLast(_, _)
MinOutcomeLast(outcomes, best) ==
    IF outcomes = <<>> THEN best
    ELSE MinOutcomeLast(Tail(outcomes),
                        IF Len(outcomes[1].l) <= Len(best.l) THEN outcomes[1] ELSE best)

\* min(outcomes, key=lambda outcome: len(outcome[1])): the first of the least
RECURSIVE MinOutcome(_, _)
MinOutcome(outcomes, best) ==
    IF outcomes = <<>> THEN best
    ELSE MinOutcome(Tail(outcomes),
                    IF Len(outcomes[1].l) < Len(best.l) THEN outcomes[1] ELSE best)

RECURSIVE match(_, _, _, _), Required_loop(_, _, _, _, _, _),
          Optional_loop(_, _, _, _), OneOrMore_loop(_, _, _, _, _, _, _, _),
          Either_loop(_, _, _, _, _)

\* Required.match: the for loop, (l, c) the state threaded through the children
Required_loop(children, left, collected, l, c, h) ==
    IF children = <<>> THEN Outcome(TRUE, l, c, h)
    ELSE LET r == match(children[1], l, c, h)
         IN  IF r.err # "" THEN r
             ELSE IF ~r.m THEN Outcome(FALSE, left, collected, r.h)
             ELSE Required_loop(Tail(children), left, collected, r.l, r.c, r.h)

\* Optional.match: the for loop
Optional_loop(children, left, collected, h) ==
    IF children = <<>> THEN Outcome(TRUE, left, collected, h)
    ELSE LET r == match(children[1], left, collected, h)
         IN  IF r.err # "" THEN r
             ELSE Optional_loop(Tail(children), r.l, r.c, r.h)

\* OneOrMore.match: the while loop; first says that l_ is still None
OneOrMore_loop(child, left, collected, l, c, h, first_l_, times) ==
    LET r == match(child, l, c, h)
        times1 == times + (IF r.m THEN 1 ELSE 0)
        l_ == first_l_[2]
        stop == (~first_l_[1] /\ ListEq(l_, r.l, r.h)) \/ ~r.m
    IN  IF r.err # "" THEN r
        ELSE IF stop
        THEN (IF times1 >= 1 THEN Outcome(TRUE, r.l, r.c, r.h)
              ELSE Outcome(FALSE, left, collected, r.h))
        ELSE OneOrMore_loop(child, left, collected, r.l, r.c, r.h,
                            <<FALSE, r.l>>, times1)

\* Either.match: the for loop; every child is matched against (left, collected)
Either_loop(children, left, collected, h, outcomes) ==
    IF children = <<>>
    THEN (IF outcomes # <<>>
          THEN LET best == MinOutcome(Tail(outcomes), outcomes[1])
               IN  Outcome(TRUE, best.l, best.c, h)
          ELSE Outcome(FALSE, left, collected, h))
    ELSE LET r == match(children[1], left, collected, h)
         IN  IF r.err # "" THEN r
             ELSE Either_loop(Tail(children), left, collected, r.h,
                              IF r.m THEN Append(outcomes, r) ELSE outcomes)

match(node, left, collected, h) ==
    CASE node.kind = "Leaf" -> LeafPattern_match(node.ref, left, collected, h)
      [] node.kind = "Required" ->
            Required_loop(node.children, left, collected, left, collected, h)
      [] node.kind \in {"Optional", "OptionsShortcut"} ->
            Optional_loop(node.children, left, collected, h)
      [] node.kind = "OneOrMore" ->
            IF Len(node.children) # 1
            THEN [m |-> FALSE, l |-> left, c |-> collected, h |-> h,
                  err |-> AssertionError]
            ELSE OneOrMore_loop(node.children[1], left, collected,
                                left, collected, h, <<TRUE, <<>>>>, 0)
      [] node.kind = "Either" ->
            Either_loop(node.children, left, collected, h, <<>>)

(***************************************************************************)
(* docopt(), the top-level driver                                          *)
(***************************************************************************)
\* extras: sys.exit() after printing the help or the version
extras(help, version, leaves) ==
    \/ /\ help
       /\ \E i \in 1..Len(leaves) :
             Name(leaves[i]) \in {"-h", "--help"} /\ Truthy(leaves[i].value)
    \/ /\ version
       /\ \E i \in 1..Len(leaves) :
             Name(leaves[i]) = "--version" /\ Truthy(leaves[i].value)

\* dict(pairs) built wrongly: the first pair of a key is kept
RECURSIVE FirstValue(_, _)
FirstValue(pairs, k) ==
    IF pairs[1][1] = k THEN pairs[1][2] ELSE FirstValue(Tail(pairs), k)

\* dict(pairs): a later pair replaces an earlier one of the same key
RECURSIVE LastValue(_, _)
LastValue(pairs, k) ==
    IF pairs[Len(pairs)][1] = k THEN pairs[Len(pairs)][2]
    ELSE LastValue(SubSeq(pairs, 1, Len(pairs) - 1), k)

ParsedOptionsDict(pairs) ==
    [k \in {pairs[i][1] : i \in 1..Len(pairs)} |-> LastValue(pairs, k)]

\* [(a.name, a.value) for a in (pattern.flat() + collected)]
ResultPairs(pat, m) ==
    LET fl == flat(pat.tree)
    IN  [i \in 1..Len(fl) |-> <<Name(pat.tab[fl[i]]), pat.tab[fl[i]].value>>]
        \o [i \in 1..Len(m.c) |-> <<Name(m.h[m.c[i]]), m.h[m.c[i]].value>>]

\* the heap at the call of pattern.match: the leaves of the tree, then those
\* parse_argv returned
Heap(tab, leaves) == tab \o leaves

\* the objects parse_argv returned, in the heap
ArgvObjects(tab, leaves) == [i \in 1..Len(leaves) |-> Len(tab) + i]

\* the leaves of the tree as the heap holds them
TreeLeaves(tab, h) == SubSeq(h, 1, Len(tab))

NoPattern == [tree |-> Branch("Required", <<>>), tab |-> <<>>]
NoMatch == [m |-> FALSE, l |-> <<>>, c |-> <<>>, h |-> <<>>, err |-> ""]
NoResult == ParsedOptionsDict(<<>>)

\* docopt(doc, argv, help, version, options_first) as one function: [outcome,
\* result], with ord the order in which the set of the doc's options is iterated
docopt(d, av, fl, ord) ==
    LET raise(e) == [outcome |-> e, result |-> NoResult]
        opts == parse_defaults(d.options)
        pp == parse_pattern(formal_usage(d.usage[1]), opts)
        pa == parse_argv(av, pp.options, fl.options_first)
        fixed == fix(populate_shortcuts([tree |-> pp.tree, tab |-> pp.tab], ord, 1,
                                        countShortcuts(pp.tree)))
        r == match(fixed.tree, ArgvObjects(fixed.tab, pa.leaves), <<>>,
                   Heap(fixed.tab, pa.leaves))
        pat == [tree |-> fixed.tree, tab |-> TreeLeaves(fixed.tab, r.h)]
    IN  IF Len(d.usage) # 1 THEN raise(DocoptLanguageError)
        ELSE IF pp.err # "" THEN raise(pp.err)
        ELSE IF pa.err # "" THEN raise(pa.err)
        ELSE IF extras(fl.help, fl.version, pa.leaves) THEN raise("SystemExit")
        ELSE IF r.err # "" THEN raise(r.err)
        ELSE IF r.m /\ r.l = <<>>
        THEN [outcome |-> "return",
              result |-> ParsedOptionsDict(ResultPairs(pat, r))]
        ELSE raise(DocoptExit)

(***************************************************************************)
(* The inputs.  A call of docopt() is a scenario (the doc and the flags)   *)
(* and an argv over the scenario's tokens.  doc is [usage, options]: the   *)
(* texts of its <usage> sections, and its <options> sections.              *)
(***************************************************************************)
MaxArgv == 3

Frag(o, d) == [options |-> o, default |-> d]

Scenario(usage, options, tokens, help, version, options_first) ==
    [usage |-> usage, options |-> options, tokens |-> tokens, help |-> help,
     version |-> version, options_first |-> options_first]

Scenarios ==
    { Scenario(<<"prog (-v | --verbose)...">>, <<>>, {"-v", "--verbose"}, FALSE, FALSE, FALSE),
      Scenario(<<"prog (-v | --verbose)...">>, <<<<Frag("-v, --verbose\n", NoDefault)>>>>, {"-v", "--verbose"}, FALSE, FALSE, FALSE),
      Scenario(<<"prog [-v | --verbose]...">>, <<<<Frag("-v, --verbose\n", NoDefault)>>>>, {"-v", "-vv", "--verbose"}, FALSE, FALSE, FALSE),
      Scenario(<<"prog (go <x> | go <x> <y>)">>, <<>>, {"go", "a", "b"}, FALSE, FALSE, FALSE),
      Scenario(<<"prog [--name=<n>]">>, <<>>, {"--name=x", "--name", "x", "--bad", "-b"}, FALSE, FALSE, FALSE),
      Scenario(<<"prog [options]">>, <<<<Frag("-n, --name=<n>", NoDefault)>>>>, {"--name=x", "--name", "-nx", "-n", "x"}, FALSE, FALSE, FALSE),
      Scenario(<<"prog a [options]\nprog b [options]">>, <<<<Frag("-x", NoDefault), Frag("--baud=<n>", VStr("9600"))>>>>, {"a", "b", "-x", "--baud=1"}, FALSE, FALSE, FALSE),
      Scenario(<<"prog (<a> | <a> b)...">>, <<>>, {"x", "y", "b"}, FALSE, FALSE, FALSE),
      Scenario(<<"prog [--opt=<x> | --opt=<x> -v]...">>, <<>>, {"--opt=a", "--opt=b", "-v"}, FALSE, FALSE, FALSE),
      Scenario(<<"prog c -ab...">>, <<>>, {"c", "-a", "-b", "-x"}, FALSE, FALSE, FALSE),
      Scenario(<<>>, <<>>, {"a"}, FALSE, FALSE, FALSE),
      Scenario(<<"prog a", "prog b">>, <<>>, {"a"}, FALSE, FALSE, FALSE),
      Scenario(<<"prog ( a">>, <<>>, {"a"}, FALSE, FALSE, FALSE),
      Scenario(<<"prog [-h] [--opt=<x>]...">>, <<>>, {"-h", "--opt=a", "--opt=b", "--bad"}, TRUE, FALSE, FALSE),
      Scenario(<<"prog [--version] [<a>]">>, <<>>, {"--version", "a"}, FALSE, TRUE, FALSE),
      Scenario(<<"prog tcp <host> [--timeout=<s>]\nprog (-h | --help)">>, <<<<Frag("-h, --help\n", NoDefault)>>>>, {"tcp", "h", "--timeout=3", "--help"}, FALSE, FALSE, FALSE),
      Scenario(<<"prog [-v] <a>...">>, <<>>, {"-v", "x", "--"}, FALSE, FALSE, TRUE),
      Scenario(<<"prog [options]">>, <<<<Frag("--verbose", NoDefault), Frag("--version", NoDefault)>>>>, {"--ver", "--verb", "--version"}, FALSE, FALSE, FALSE),
      Scenario(<<"prog [--opt=<x>]...">>, <<<<Frag("--opt=<x>", VStr("a b"))>>>>, {"--opt=c", "--opt=d"}, FALSE, FALSE, FALSE),
      Scenario(<<"prog [-f]... [-g <x>]">>, <<<<Frag("-f, --foo", NoDefault), Frag("-g, --foo=<x>", NoDefault)>>>>, {"-f", "-g", "x"}, FALSE, FALSE, FALSE),
      Scenario(<<"prog [-v] [--] [<a>]...">>, <<>>, {"-v", "--", "x"}, FALSE, FALSE, FALSE),
      Scenario(<<"prog [--verb]">>, <<<<Frag("--verbose", NoDefault)>>>>, {"--verb", "--verbose", "--ver"}, FALSE, FALSE, FALSE),
      Scenario(<<"prog [options] [<a>]">>, <<<<Frag("-v", NoDefault), Frag("-n, --name=<n>", NoDefault)>>>>, {"--name", "-n", "--", "x"}, FALSE, FALSE, FALSE),
      Scenario(<<"prog [options] [<a>]">>, <<<<Frag("-v", NoDefault), Frag("-n, --name=<n>", NoDefault)>>>>, {"-vn", "-nv", "-vv", "x"}, FALSE, FALSE, FALSE),
      Scenario(<<"prog ( a ]">>, <<>>, {"a"}, FALSE, FALSE, FALSE),
      Scenario(<<"prog a )">>, <<>>, {"a"}, FALSE, FALSE, FALSE),
      Scenario(<<"prog (-v a)... [-v]">>, <<>>, {"-v", "a"}, FALSE, FALSE, FALSE) }

ArgvOver(tokens) == UNION {[1..n -> tokens] : n \in 0..MaxArgv}

VARIABLES
    doc,            \* the doc: its usage sections and its options sections
    argv,           \* the argument vector
    flags,          \* [help, version, options_first]
    pc,             \* the statement of docopt() reached
    options,        \* the registry: parse_defaults(doc), then what parse_pattern adds
    pattern,        \* [tree, tab]: the pattern tree and its leaf objects
    parsed_argv,    \* the leaves parse_argv made
    ordering,       \* the order in which the set of the doc's options is iterated
    mres,           \* (matched, left, collected) and the heap, after pattern.match
    result,         \* the dict returned
    outcome,        \* "" while running, "return", or the exception raised
    DocoptExit_usage,   \* the class attribute DocoptExit.usage
    raised_usage,   \* self.usage as DocoptExit.__init__ read it, "" if none was raised
    other_pc        \* the statement of docopt() another thread's call has reached

vars == <<doc, argv, flags, pc, options, pattern, parsed_argv, ordering, mres, result,
          outcome, DocoptExit_usage, raised_usage, other_pc>>

Init ==
    \E sc \in Scenarios : \E av \in ArgvOver(sc.tokens) :
        /\ doc = [usage |-> sc.usage, options |-> sc.options]
        /\ argv = av
        /\ flags = [help |-> sc.help, version |-> sc.version,
                    options_first |-> sc.options_first]
        /\ pc = "parse_section"
        /\ options = <<>>
        /\ pattern = NoPattern
        /\ parsed_argv = <<>>
        /\ ordering = <<>>
        /\ mres = NoMatch
        /\ result = NoResult
        /\ outcome = ""
        /\ DocoptExit_usage = ""
        /\ raised_usage = ""
        /\ other_pc = "parse_section"

\* usage_sections = parse_section("usage", doc), and the two checks of its length
ParseSection ==
    /\ pc = "parse_section"
    /\ IF Len(doc.usage) # 1
       THEN /\ pc' = "done" /\ outcome' = DocoptLanguageError
            /\ DocoptExit_usage' = DocoptExit_usage
       ELSE /\ pc' = "parse_defaults" /\ outcome' = outcome
            /\ DocoptExit_usage' = "Usage:" \o doc.usage[1]
    /\ UNCHANGED <<doc, argv, flags, options, pattern, parsed_argv, ordering, mres, result,
                   raised_usage, other_pc>>

\* options = parse_defaults(doc)
ParseDefaults ==
    /\ pc = "parse_defaults"
    /\ options' = parse_defaults(doc.options)
    /\ pc' = "parse_pattern"
    /\ UNCHANGED <<doc, argv, flags, pattern, parsed_argv, ordering, mres, result, outcome,
                   DocoptExit_usage, raised_usage, other_pc>>

\* pattern = parse_pattern(formal_usage(usage_sections[0]), options)
ParsePattern ==
    /\ pc = "parse_pattern"
    /\ LET r == parse_pattern(formal_usage(doc.usage[1]), options)
       IN  /\ options' = r.options
           /\ pattern' = [tree |-> r.tree, tab |-> r.tab]
           /\ IF r.err # ""
              THEN pc' = "done" /\ outcome' = r.err
              ELSE pc' = "parse_argv" /\ outcome' = outcome
    /\ UNCHANGED <<doc, argv, flags, parsed_argv, ordering, mres, result,
                   DocoptExit_usage, raised_usage, other_pc>>

\* parsed_argv = parse_argv(Tokens(argv), list(options), options_first)
ParseArgv ==
    /\ pc = "parse_argv"
    /\ LET r == parse_argv(argv, options, flags.options_first)
       IN  /\ parsed_argv' = r.leaves
           /\ IF r.err # ""
              THEN /\ pc' = "done" /\ outcome' = r.err
                   /\ raised_usage' = DocoptExit_usage
              ELSE /\ pc' = "options_shortcut" /\ outcome' = outcome
                   /\ raised_usage' = raised_usage
    /\ UNCHANGED <<doc, argv, flags, options, pattern, ordering, mres, result,
                   DocoptExit_usage, other_pc>>

\* the loop over pattern.flat(OptionsShortcut)
PopulateShortcuts ==
    /\ pc = "options_shortcut"
    /\ \E o \in Orderings(Range(parse_defaults(doc.options))) :
          /\ ordering' = o
          /\ pattern' = populate_shortcuts(pattern, o, 1, countShortcuts(pattern.tree))
    /\ pc' = "extras"
    /\ UNCHANGED <<doc, argv, flags, options, parsed_argv, mres, result, outcome,
                   DocoptExit_usage, raised_usage, other_pc>>

\* extras(help, version, parsed_argv, doc)
Extras ==
    /\ pc = "extras"
    /\ IF extras(flags.help, flags.version, parsed_argv)
       THEN pc' = "done" /\ outcome' = "SystemExit"
       ELSE pc' = "fix" /\ outcome' = outcome
    /\ UNCHANGED <<doc, argv, flags, options, pattern, parsed_argv, ordering, mres, result,
                   DocoptExit_usage, raised_usage, other_pc>>

\* pattern.fix()
Fix ==
    /\ pc = "fix"
    /\ pattern' = fix(pattern)
    /\ pc' = "match"
    /\ UNCHANGED <<doc, argv, flags, options, parsed_argv, ordering, mres, result, outcome,
                   DocoptExit_usage, raised_usage, other_pc>>

\* matched, left, collected = pattern.match(parsed_argv)
Match ==
    /\ pc = "match"
    /\ LET r == match(pattern.tree, ArgvObjects(pattern.tab, parsed_argv), <<>>,
                      Heap(pattern.tab, parsed_argv))
       IN  /\ mres' = r
           /\ pattern' = [pattern EXCEPT !.tab = TreeLeaves(pattern.tab, r.h)]
           /\ IF r.err # ""
              THEN pc' = "done" /\ outcome' = r.err
              ELSE pc' = "return" /\ outcome' = outcome
    /\ UNCHANGED <<doc, argv, flags, options, parsed_argv, ordering, result,
                   DocoptExit_usage, raised_usage, other_pc>>

\* the return written without the check of left
ReturnIgnoringLeft ==
    /\ pc = "return"
    /\ IF mres.m
       THEN /\ result' = ParsedOptionsDict(ResultPairs(pattern, mres))
            /\ outcome' = "return"
            /\ raised_usage' = raised_usage
       ELSE /\ result' = result
            /\ outcome' = DocoptExit
            /\ raised_usage' = DocoptExit_usage
    /\ pc' = "done"
    /\ UNCHANGED <<doc, argv, flags, options, pattern, parsed_argv, ordering, mres,
                   DocoptExit_usage, other_pc>>

\* the return of the dict, or the raise of DocoptExit
Return_ ==
    /\ pc = "return"
    /\ IF mres.m /\ mres.l = <<>>
       THEN /\ result' = ParsedOptionsDict(ResultPairs(pattern, mres))
            /\ outcome' = "return"
            /\ raised_usage' = raised_usage
       ELSE /\ result' = result
            /\ outcome' = DocoptExit
            /\ raised_usage' = DocoptExit_usage
    /\ pc' = "done"
    /\ UNCHANGED <<doc, argv, flags, options, pattern, parsed_argv, ordering, mres,
                   DocoptExit_usage, other_pc>>

Next ==
    \/ ParseSection
    \/ ParseDefaults
    \/ ParsePattern
    \/ ParseArgv
    \/ PopulateShortcuts
    \/ Extras
    \/ Fix
    \/ Match
    \/ Return_

Spec == Init /\ [][Next]_vars

\* the usage section of the doc of the other thread's call
OtherUsage == "other [-q]"

\* DocoptExit.usage = "Usage:" + usage_sections[0], in the other thread's call
OtherCall ==
    /\ other_pc = "parse_section"
    /\ DocoptExit_usage' = "Usage:" \o OtherUsage
    /\ other_pc' = "parse_defaults"
    /\ UNCHANGED <<doc, argv, flags, pc, options, pattern, parsed_argv, ordering, mres,
                   result, outcome, raised_usage>>

NextTwoCalls ==
    \/ Next
    \/ OtherCall

\* docopt() called while another thread calls it for another doc
SpecTwoCalls == Init /\ [][NextTwoCalls]_vars

(***************************************************************************)
(* The properties                                                          *)
(***************************************************************************)
Returned == pc = "done" /\ outcome = "return"

\* the names of the leaves of the pattern tree
LeafNames == {Name(pattern.tab[i]) : i \in Range(flat(pattern.tree))}

\* the positions of collected that hold an object named k
Bound(k) == {i \in 1..Len(mres.c) : Name(mres.h[mres.c[i]]) = k}

Max(S) == CHOOSE x \in S : \A y \in S : y <= x

\* the value of a leaf no argument was matched to
IsDefault(leaf) ==
    IF leaf.kind = "Option" /\ leaf.argcount = 1
    THEN leaf.value.t \in {"None", "str", "list"}
    ELSE leaf.value \in {VBool(FALSE), VNone, VInt(0), VList(<<>>)}

\* C1: when docopt returns, the keys of the dict are exactly the names of the
\* leaves of the pattern tree (the options [options] stands for included); a
\* name the match bound nothing to maps to the value of its leaf in the tree
\* (False, None, 0, [] or the declared default), a name it bound maps to the
\* value it collected.
C1_ResultIsLeavesThenCollected ==
    Returned =>
        /\ DOMAIN result = LeafNames
        /\ \A k \in DOMAIN result :
              IF Bound(k) = {}
              THEN \E i \in Range(flat(pattern.tree)) :
                      /\ Name(pattern.tab[i]) = k
                      /\ result[k] = pattern.tab[i].value
                      /\ IsDefault(pattern.tab[i])
              ELSE result[k] = mres.h[mres.c[Max(Bound(k))]].value

\* C1 happens: "prog a [options]" called with a -x returns a and -x bound, b
\* and the --baud of [options] at their defaults
C1_Witness ==
    /\ Returned
    /\ argv = <<"a", "-x">>
    /\ DOMAIN result = {"a", "b", "-x", "--baud"}
    /\ result["a"] = VBool(TRUE) /\ result["-x"] = VBool(TRUE)
    /\ result["b"] = VBool(FALSE) /\ result["--baud"] = VStr("9600")

\* C2: docopt returns a dict exactly when the match of the fixed pattern
\* against the whole of parsed_argv is matched with nothing left; after any
\* other match it raises DocoptExit and returns nothing.
C2_ReturnIffMatchedAndNothingLeft ==
    [][/\ pc = "return" =>
            /\ mres = match(pattern.tree, ArgvObjects(pattern.tab, parsed_argv),
                            <<>>, Heap(pattern.tab, parsed_argv))
            /\ IF mres.m /\ mres.l = <<>>
               THEN outcome' = "return"
               ELSE outcome' = DocoptExit /\ result' = NoResult
       /\ outcome' = "return" /\ outcome # "return" => pc = "return"]_vars

\* C2 happens: a match that is matched with an argument left raises DocoptExit
C2_Witness ==
    /\ pc = "done" /\ outcome = DocoptExit
    /\ mres.m /\ mres.l # <<>>
\* the number of leaves of parsed_argv named k: the times the flag was given
TimesGiven(k) == Cardinality({i \in 1..Len(parsed_argv) : Name(parsed_argv[i]) = k})

\* C3: when docopt returns, every count in the dict is the number of times its
\* flag was given in argv; [-v | --verbose]... with -v, --verbose declared as
\* one option and argv -v -v -v gives 3.
C3_CountIsTimesGiven ==
    Returned =>
        \A k \in DOMAIN result :
            result[k].t = "int" => result[k].n = TimesGiven(k)
\* the Either nodes of a tree
RECURSIVE EitherNodes(_)
EitherNodes(node) ==
    IF IsLeafNode(node) THEN {}
    ELSE (IF node.kind = "Either" THEN {node} ELSE {})
         \cup UNION {EitherNodes(node.children[i]) : i \in 1..Len(node.children)}

\* the lists of objects of parsed_argv a match can be handed as left
Lefts ==
    {SelectSeq(ArgvObjects(pattern.tab, parsed_argv), LAMBDA i : i \in I) :
        I \in SUBSET Range(ArgvObjects(pattern.tab, parsed_argv))}

\* child.match(left, collected) of each child in turn, as the for loop of
\* Either.match calls them: each on the heap the one before left
RECURSIVE ChildOutcomes(_, _, _, _)
ChildOutcomes(children, left, collected, h) ==
    IF children = <<>> THEN <<>>
    ELSE LET r == match(children[1], left, collected, h)
         IN  <<r>> \o ChildOutcomes(Tail(children), left, collected, r.h)

\* Either.match of node on (left, []) is as C4 says
EitherChoosesFirstShortest(node, left) ==
    LET r  == match(node, left, <<>>, Heap(pattern.tab, parsed_argv))
        os == ChildOutcomes(node.children, left, <<>>,
                            Heap(pattern.tab, parsed_argv))
        M  == {i \in 1..Len(os) : os[i].m}
    IN  r.err = "" =>
          /\ r.m <=> M # {}
          /\ M = {} => r.l = left /\ r.c = <<>>
          /\ M # {} =>
                \E i \in M :
                    /\ r.l = os[i].l /\ r.c = os[i].c
                    /\ \A j \in M : Len(os[i].l) <= Len(os[j].l)
                    /\ \A j \in M : Len(os[j].l) = Len(os[i].l) => i <= j

GoUsage == <<"prog (go <x> | go <x> <y>)">>

\* C4: Either.match is matched exactly when a child matches (left, collected);
\* its outcome is then that of the matching child with the shortest left, the
\* first of them in child order when several are as short.  With usage
\* "prog (go <x> | go <x> <y>)" and argv go a b, <x> is a and <y> is b.
C4_EitherFirstShortest ==
    /\ pc = "return" =>
          \A node \in EitherNodes(pattern.tree) : \A left \in Lefts :
              EitherChoosesFirstShortest(node, left)
    /\ pc = "done" /\ doc.usage = GoUsage /\ argv = <<"go", "a", "b">> =>
          /\ outcome = "return"
          /\ result["<x>"] = VStr("a") /\ result["<y>"] = VStr("b")

\* C4 happens: both alternatives of (go <x> | go <x> <y>) match go a b, the
\* first with b left, and the second is taken
C4_Witness ==
    /\ pc = "return" /\ doc.usage = GoUsage /\ argv = <<"go", "a", "b">>
    /\ \E node \in EitherNodes(pattern.tree) :
          LET os == ChildOutcomes(node.children,
                                  ArgvObjects(pattern.tab, parsed_argv), <<>>,
                                  Heap(pattern.tab, parsed_argv))
              r  == match(node, ArgvObjects(pattern.tab, parsed_argv), <<>>,
                          Heap(pattern.tab, parsed_argv))
          IN  /\ Len(os) = 2 /\ os[1].m /\ os[2].m
              /\ Len(os[1].l) = 1 /\ os[2].l = <<>>
              /\ r.m /\ r.l = <<>> /\ r.c = os[2].c
\* whether s is t with some of its items left out
RECURSIVE IsSubsequence(_, _)
IsSubsequence(s, t) ==
    IF s = <<>> THEN TRUE
    ELSE IF t = <<>> THEN FALSE
    ELSE IF s[1] = t[1] THEN IsSubsequence(Tail(s), Tail(t))
    ELSE IsSubsequence(s, Tail(t))

\* the positionals of a list of leaves, in their order
PositionalsOf(leaves) == SelectSeq(leaves, LAMBDA a : a.kind = "Argument")

\* the options named k of a list of leaves, in their order
OptionsNamed(leaves, k) ==
    SelectSeq(leaves, LAMBDA a : a.kind = "Option" /\ Name(a) = k)

\* the values of a list of leaves that hold a str
ValuesOf(leaves) == [i \in 1..Len(leaves) |-> leaves[i].value.s]

\* C5: when docopt returns, a list the match bound holds one item for each
\* argv token consumed for its element, in the order of argv, none twice: the
\* list of an option is the values given to that option; the list of an
\* argument is made of the positional values of argv, each taken at most once.
C5_ListHoldsConsumedValues ==
    Returned =>
        \A k \in DOMAIN result :
            result[k].t = "list" /\ Bound(k) # {} =>
                IF OptionsNamed(parsed_argv, k) # <<>>
                THEN result[k].l = ValuesOf(OptionsNamed(parsed_argv, k))
                ELSE IsSubsequence(result[k].l,
                                   ValuesOf(PositionalsOf(parsed_argv)))
\* the argument vectors that are av with its tokens in another order
ArgvPermutations(av) ==
    LET n == Len(av)
    IN  {[i \in 1..n |-> av[p[i]]] :
            p \in {q \in [1..n -> 1..n] : \A i, j \in 1..n : q[i] = q[j] => i = j}}

\* the leaves parse_argv makes of av, given the options parse_pattern left
LeavesOf(av) == parse_argv(av, options, flags.options_first)

\* how many of a list of leaves are equal to the leaf o
TimesIn(leaves, o) == Len(SelectSeq(leaves, LAMBDA a : a = o))

\* a2 differs from argv only by the order of its options: both parse, to the
\* same positionals in the same order and to the same options, each as often
OptionPermutations ==
    {a2 \in ArgvPermutations(argv) :
        LET l1 == LeavesOf(argv)
            l2 == LeavesOf(a2)
        IN  /\ l1.err = "" /\ l2.err = ""
            /\ PositionalsOf(l1.leaves) = PositionalsOf(l2.leaves)
            /\ \A o \in Range(l1.leaves) \cup Range(l2.leaves) :
                  o.kind = "Option" => TimesIn(l1.leaves, o) = TimesIn(l2.leaves, o)}

\* the option permutations that keep the order of the values given to an option
SameOptionOrderPermutations ==
    {a2 \in OptionPermutations :
        \A o \in Range(LeavesOf(argv).leaves) :
            OptionsNamed(LeavesOf(argv).leaves, Name(o))
              = OptionsNamed(LeavesOf(a2).leaves, Name(o))}

\* docopt() got as far as parsing argv, and ended
EndedAfterParseArgv ==
    /\ pc = "done"
    /\ outcome \notin {DocoptLanguageError}
    /\ LeavesOf(argv).err = ""

\* the call of docopt() on a2 ends as this one did
SameOutcome(a2) ==
    docopt(doc, a2, flags, ordering) = [outcome |-> outcome, result |-> result]

\* C6 as the spec states it: a call whose argv differs only by the order of
\* its options ends the same way, failing too or returning an equal dict.
C6_OptionOrderIrrelevant ==
    EndedAfterParseArgv => \A a2 \in OptionPermutations : SameOutcome(a2)

\* C6, amended: a call whose argv differs only by the order of its options,
\* the values given to one option staying in their order, ends the same way.
C6_OrderOfDistinctOptionsIrrelevant ==
    EndedAfterParseArgv => \A a2 \in SameOptionOrderPermutations : SameOutcome(a2)

\* C6 happens: "prog a [options]" returns for a --baud=1 -x, which has another
\* order of its options
C6_Witness ==
    /\ Returned
    /\ argv = <<"a", "--baud=1", "-x">>
    /\ <<"a", "-x", "--baud=1">> \in SameOptionOrderPermutations
\* the docs with one optional option --name=<n> that has no default: spelled
\* out in the usage, and declared in the options section behind [options]
NameDocs ==
    { [usage |-> <<"prog [--name=<n>]">>, options |-> <<>>],
      [usage |-> <<"prog [options]">>,
       options |-> <<<<Frag("-n, --name=<n>", NoDefault)>>>>] }

\* C7: with one optional option --name=<n> that has no default, docopt maps
\* --name to None for the empty argv, and to "x" for --name=x and for --name x.
C7_NameNoneOrGivenEitherSpelling ==
    pc = "done" /\ doc \in NameDocs =>
        /\ argv = <<>> => outcome = "return" /\ result["--name"] = VNone
        /\ argv \in {<<"--name=x">>, <<"--name", "x">>} =>
              /\ outcome = "return" /\ result["--name"] = VStr("x")
              /\ \A a2 \in {<<"--name=x">>, <<"--name", "x">>} :
                    docopt(doc, a2, flags, ordering)
                      = [outcome |-> outcome, result |-> result]

\* C7 happens: --name x returns "x", and the call on the empty argv None
C7_Witness ==
    /\ Returned /\ doc \in NameDocs
    /\ argv = <<"--name", "x">> /\ result["--name"] = VStr("x")
    /\ docopt(doc, <<>>, flags, ordering).result["--name"] = VNone
\* an option of argv that is none of the options the usage and the options
\* sections declare
Unknown(leaf) ==
    /\ leaf.kind = "Option"
    /\ \A i \in 1..Len(options) :
          ~(options[i].short = leaf.short /\ options[i].long = leaf.long)

HasUnknown == \E i \in 1..Len(parsed_argv) : Unknown(parsed_argv[i])

\* the match ended with an unknown option among what is left
UnknownIsLeft == \E j \in 1..Len(mres.l) : Unknown(mres.h[mres.l[j]])

C9_TwoErrorKinds ==
    [][/\ pc \in {"parse_section", "parse_defaults", "parse_pattern"}
          /\ pc' = "done" => outcome' = DocoptLanguageError
       /\ pc \in {"parse_argv", "match", "return"} /\ pc' = "done"
          /\ outcome' # "return" => outcome' = DocoptExit
       /\ pc' = "done" =>
             outcome' \in {"return", DocoptLanguageError, DocoptExit, "SystemExit"}
      ]_vars

\* the OptionsShortcut nodes of a tree
RECURSIVE ShortcutNodes(_)
ShortcutNodes(node) ==
    IF IsLeafNode(node) THEN {}
    ELSE IF node.kind = "OptionsShortcut" THEN {node}
    ELSE UNION {ShortcutNodes(node.children[i]) : i \in 1..Len(node.children)}

\* the leaves of a tree that are under no OptionsShortcut: those the usage
\* spells out
RECURSIVE SpelledOut(_)
SpelledOut(node) ==
    IF IsLeafNode(node) THEN {node.ref}
    ELSE IF node.kind = "OptionsShortcut" THEN {}
    ELSE UNION {SpelledOut(node.children[i]) : i \in 1..Len(node.children)}

\* C10: once the loop over the OptionsShortcut nodes has run, the children of
\* each of them are exactly the options of the options sections that the
\* usage does not spell out.
C10_EveryShortcutPopulated ==
    pc = "extras" =>
        \A sc \in ShortcutNodes(pattern.tree) :
            {pattern.tab[sc.children[i].ref] : i \in 1..Len(sc.children)}
              = Range(parse_defaults(doc.options))
                  \ {pattern.tab[r] : r \in SpelledOut(pattern.tree)}

\* pattern.fix() has run: the states at pattern.match and after it
Fixed == pc \in {"match", "return"} \/ (pc = "done" /\ mres # NoMatch)

\* the alternatives of the expanded form of a tree, each the list of its leaves
\* (in no particular order): Either gives one alternative per child, OneOrMore
\* its children twice, the other branches their children
RECURSIVE Alternatives(_), Sequences(_)
Alternatives(node) ==
    IF IsLeafNode(node) THEN {<<node.ref>>}
    ELSE IF node.kind = "Either"
    THEN UNION {Alternatives(node.children[i]) : i \in 1..Len(node.children)}
    ELSE IF node.kind = "OneOrMore"
    THEN {a \o b : a \in Sequences(node.children), b \in Sequences(node.children)}
    ELSE Sequences(node.children)

Sequences(children) ==
    IF children = <<>> THEN {<<>>}
    ELSE {a \o b : a \in Alternatives(children[1]), b \in Sequences(Tail(children))}

\* how often the object r occurs in an alternative
Occurrences(a, r) == Cardinality({i \in 1..Len(a) : a[i] = r})

Repeats(r) == \E a \in Alternatives(pattern.tree) : Occurrences(a, r) > 1

\* C11: once the pattern is fixed, and after the match as well, the value of a
\* leaf of the tree is a count or a list exactly when the leaf occurs more than
\* once in one alternative of the expanded tree.
C11_AccumulatorIffRepeats ==
    Fixed =>
        \A r \in Range(flat(pattern.tree)) :
            pattern.tab[r].value.t \in {"int", "list"} <=> Repeats(r)

\* C11 happens: "prog [-h] [--opt=<x>]..." has matched --opt=a; --opt repeats
\* and holds a list, -h does not and holds a bool
C11_Witness ==
    /\ Returned
    /\ doc.usage = <<"prog [-h] [--opt=<x>]...">>
    /\ argv = <<"--opt=a">>
    /\ \E r \in Range(flat(pattern.tree)) :
          Repeats(r) /\ pattern.tab[r].value = VList(<<>>)
    /\ \E r \in Range(flat(pattern.tree)) :
          ~Repeats(r) /\ pattern.tab[r].value = VBool(FALSE)

\* a leaf that counts: a Command or an Option that takes no argument
Counts(leaf) == leaf.kind = "Command" \/ (leaf.kind = "Option" /\ leaf.argcount = 0)

\* the original statement of C12: right after pattern.fix() every repeating
\* Argument or Option with an argument holds [], every repeating Command or
\* Option without argument holds 0
C12_RepeatingSeededEmpty ==
    pc = "match" =>
        \A r \in Range(flat(pattern.tree)) :
            Repeats(r) =>
                pattern.tab[r].value
                    = (IF Counts(pattern.tab[r]) THEN VInt(0) ELSE VList(<<>>))

\* C12: pattern.fix() leaves every repeating Command or Option without argument
\* with 0, every repeating Argument or Option with an argument whose value was
\* None with [], and every repeating Option whose value was a declared default
\* with the list of the words of that default.
C12_RepeatingSeededFromDefault ==
    [][pc = "fix" =>
          \A r \in Range(flat(pattern'.tree)) :
              Repeats(r)' =>
                  pattern'.tab[r].value
                      = (IF Counts(pattern.tab[r]) THEN VInt(0)
                         ELSE IF pattern.tab[r].value = VNone THEN VList(<<>>)
                         ELSE VList(Split(pattern.tab[r].value.s)))]_vars

\* C12 happens: the --opt of "prog [--opt=<x>]..." declared with [default: a b]
\* holds ['a', 'b'] after pattern.fix()
C12_Witness ==
    /\ pc = "match"
    /\ \E r \in Range(flat(pattern.tree)) :
          /\ Repeats(r)
          /\ pattern.tab[r].kind = "Option" /\ pattern.tab[r].argcount = 1
          /\ pattern.tab[r].value = VList(<<"a", "b">>)

\* two positions of the tree that hold equal leaves hold one object
SharedInstances ==
    \A i, j \in Range(flat(pattern.tree)) : pattern.tab[i] = pattern.tab[j] => i = j

\* no two objects of the tree have one name
UniqueNames ==
    \A i, j \in Range(flat(pattern.tree)) :
        i # j => Name(pattern.tab[i]) # Name(pattern.tab[j])

\* C13: once the pattern is fixed, equal leaves of the tree are one shared
\* object and no two objects of the tree have the same name.
C13_SharedInstanceAndUniqueNames == Fixed => SharedInstances /\ UniqueNames

\* the OneOrMore nodes of a tree
RECURSIVE OneOrMoreNodes(_)
OneOrMoreNodes(node) ==
    IF IsLeafNode(node) THEN {}
    ELSE (IF node.kind = "OneOrMore" THEN {node} ELSE {})
         \cup UNION {OneOrMoreNodes(node.children[i]) : i \in 1..Len(node.children)}

\* C14: every OneOrMore node of the tree parse_pattern returned has exactly
\* one child, and OneOrMore.match never raises AssertionError.
C14_OneOrMoreOwnsOneChild ==
    /\ \A n \in OneOrMoreNodes(pattern.tree) : Len(n.children) = 1
    /\ outcome # AssertionError

\* the Option objects there are: those of the registry, of the tree, of
\* parsed_argv and of the heap of the match
OptionObjects ==
    {o \in Range(options) \cup Range(pattern.tab) \cup Range(parsed_argv)
             \cup Range(mres.h) : o.kind = "Option"}

\* C15: in every state every Option that takes no argument holds a bool or a
\* count, and every Option that takes an argument holds None, a str or a list.
C15_OptionValueTypes ==
    \A o \in OptionObjects :
        IF o.argcount = 0
        THEN o.value.t \in {"bool", "int"}
        ELSE o.value.t \in {"None", "str", "list"}

\* C16: a second pattern.fix() on the pattern just fixed changes nothing: the
\* tree is the same and every leaf keeps the value the first call gave it.
C16_FixIdempotent ==
    pc = "match" =>
        /\ fix(pattern).tree = pattern.tree
        /\ \A r \in Range(flat(pattern.tree)) :
              fix(pattern).tab[r].value = pattern.tab[r].value

\* C16 happens: the pattern of "prog [--opt=<x>]..." with [default: a b] is
\* fixed, --opt holds ['a', 'b'], and a second fix keeps it
C16_Witness ==
    /\ pc = "match"
    /\ doc.usage = <<"prog [--opt=<x>]...">>
    /\ doc.options # <<>>
    /\ \E r \in Range(flat(pattern.tree)) :
          /\ pattern.tab[r].value = VList(<<"a", "b">>)
          /\ fix(pattern).tab[r].value = VList(<<"a", "b">>)

\* C17: pattern.match changes no leaf of the fixed tree, whether it matches or
\* not, and a second match of the tree against new leaves for the same argv
\* gives the same matched, left and collected as the first.
C17_MatchLeavesTreeUnchanged ==
    [][pc = "match" =>
          /\ pattern' = pattern
          /\ match(pattern'.tree, ArgvObjects(pattern'.tab, parsed_argv), <<>>,
                   Heap(pattern'.tab, parsed_argv)) = mres']_vars

\* C17 happens: a match has bound a value to a name, in an object that is not
\* of the tree, and the leaf of that name in the tree holds another value
C17_Witness ==
    /\ pc = "return" /\ mres.m
    /\ \E r \in Range(flat(pattern.tree)) : \E i \in Range(mres.c) :
          /\ i > Len(pattern.tab)
          /\ Name(mres.h[i]) = Name(pattern.tab[r])
          /\ mres.h[i].value # pattern.tab[r].value

\* C18: a DocoptExit raised by a call carries the usage of the doc passed to
\* that call, also when another thread calls docopt() for another doc.
C18_ErrorCarriesOwnUsage ==
    outcome = DocoptExit => raised_usage = "Usage:" \o doc.usage[1]

\* the position of the first -- of argv
FirstDashes == CHOOSE k \in 1..Len(argv) : argv[k] = "--" /\ \A j \in 1..(k - 1) : argv[j] # "--"

\* the leaves parse_argv makes of the tokens before the first -- of argv
BeforeDashes == parse_argv(SubSeq(argv, 1, FirstDashes - 1), options, flags.options_first).leaves

\* parse_argv has returned for an argv that holds --
ParsedDashes == pc = "options_shortcut" /\ "--" \in Range(argv)

\* the original statement of C19: the leaves of parse_argv are those of the
\* tokens before the --, then one Argument for each token after it, in order:
\* no leaf for the -- itself
C19_DashesDropped ==
    ParsedDashes =>
        LET k == FirstDashes
            n == Len(argv)
            m == Len(parsed_argv)
        IN  /\ m >= n - k
            /\ \A j \in (k + 1)..n : parsed_argv[m - n + j] = Argument("", VStr(argv[j]))
            /\ SubSeq(parsed_argv, 1, m - (n - k)) = BeforeDashes

\* C19: the leaves of parse_argv for an argv that holds -- are those of the
\* tokens before the --, then one Argument for the -- and one for each token
\* after it, in order: no token after the -- is parsed as an option.
C19_DashesKeptAsArgument ==
    ParsedDashes =>
        LET k == FirstDashes
            n == Len(argv)
            m == Len(parsed_argv)
        IN  /\ m >= n - k + 1
            /\ \A j \in k..n : parsed_argv[m - n + j] = Argument("", VStr(argv[j]))
            /\ SubSeq(parsed_argv, 1, m - (n - k + 1)) = BeforeDashes

\* C19 happens: -v -- -v is parsed to the option -v, then the arguments -- and -v
C19_Witness ==
    /\ ParsedDashes /\ ~flags.options_first
    /\ argv = <<"-v", "--", "-v">>
    /\ Len(parsed_argv) = 3
    /\ parsed_argv[1].kind = "Option"
    /\ parsed_argv[2] = Argument("", VStr("--"))
    /\ parsed_argv[3] = Argument("", VStr("-v"))

\* a token parse_argv hands to parse_long or parse_shorts
OptionLooking(t) == t # "--" /\ StartsWith(t, "-") /\ t # "-"

\* the leaves of the tokens before position p are options only, and those of
\* the tokens from p on are one Argument each, in order
OptionsThenPositionals(p) ==
    LET n == Len(argv)
        before == parse_argv(SubSeq(argv, 1, p - 1), options, FALSE)
    IN  /\ before.err = ""
        /\ \A i \in 1..Len(before.leaves) : before.leaves[i].kind = "Option"
        /\ parsed_argv = before.leaves
                           \o [j \in 1..(n - p + 1) |-> Argument("", VStr(argv[p + j - 1]))]

\* C20: with options_first the leaves of parse_argv are options up to the
\* first token met that is a positional (or --), and one Argument for that
\* token and for each token after it, option-looking or not, in order; without
\* options_first no option-looking token met before a -- becomes an Argument.
C20_OptionsFirstEndsOptionParsing ==
    pc = "options_shortcut" =>
        IF flags.options_first
        THEN \E p \in 1..(Len(argv) + 1) :
                /\ p <= Len(argv) => ~OptionLooking(argv[p])
                /\ OptionsThenPositionals(p)
        ELSE \A i \in 1..Len(parsed_argv) :
                parsed_argv[i].kind = "Argument"
                  /\ OptionLooking(parsed_argv[i].value.s)
                    => \E j \in 1..(i - 1) : parsed_argv[j] = Argument("", VStr("--"))

\* C20 happens: with options_first, -v x -v is parsed to the option -v and
\* the arguments x and -v
C20_Witness ==
    /\ pc = "options_shortcut" /\ flags.options_first
    /\ argv = <<"-v", "x", "-v">>
    /\ OptionsThenPositionals(2)
    /\ parsed_argv[3] = Argument("", VStr("-v"))

\* a token parse_argv and parse_atom hand to parse_long
LongLooking(t) == StartsWith(t, "--") /\ t # "--"

\* the options of a registry whose long name is that of the token t, and
\* those whose long name starts with it
ExactOnes(t, registry) ==
    {k \in 1..Len(registry) : registry[k].long = PartitionEq(t)[1]}

PrefixedOnes(t, registry) ==
    {k \in 1..Len(registry) :
        registry[k].long # "" /\ StartsWith(registry[k].long, PartitionEq(t)[1])}

\* the option o cannot take what the token at position i of toks gives it: a
\* value it has no use for, or no value where it needs one
ArityError(o, toks, i) ==
    \/ o.argcount = 0 /\ PartitionEq(toks[i])[2] = "="
    \/ /\ o.argcount = 1 /\ PartitionEq(toks[i])[2] = ""
       /\ (i = Len(toks) \/ toks[i + 1] = "--")

\* parse_long on the token at position i of argv resolves it to the option k
ResolvedTo(i, k) ==
    LET r == parse_long(SubSeq(argv, i, Len(argv)), options, DocoptExit)
    IN  IF ArityError(options[k], argv, i) THEN r.err = DocoptExit
        ELSE /\ r.err = ""
             /\ Len(r.out) = 1
             /\ r.out[1].long = options[k].long
             /\ r.out[1].short = options[k].short
             /\ r.out[1].argcount = options[k].argcount

\* the tokens of the usage pattern
UsageTokens == from_pattern(formal_usage(doc.usage[1]))

\* C21: parse_long on a long option of argv that no option of the registry
\* has as its long name resolves it to the one option whose long name starts
\* with it, and raises DocoptExit when two or more do; an option that has it
\* as its long name is the one taken, whatever others start with it.  On a
\* long option of the usage that no option has as its long name it makes a new
\* option of that very name, whatever options start with it.
C21_UniquePrefixResolved ==
    /\ pc = "parse_argv" =>
          \A i \in 1..Len(argv) :
              LongLooking(argv[i]) =>
                  LET exact == ExactOnes(argv[i], options)
                      prefixed == PrefixedOnes(argv[i], options)
                  IN  /\ exact = {} /\ Cardinality(prefixed) = 1 =>
                            \A k \in prefixed : ResolvedTo(i, k)
                      /\ exact = {} /\ Cardinality(prefixed) > 1 =>
                            parse_long(SubSeq(argv, i, Len(argv)), options,
                                       DocoptExit).err = DocoptExit
                      /\ Cardinality(exact) = 1 =>
                            \A k \in exact : ResolvedTo(i, k)
    /\ pc = "parse_pattern" =>
          \A i \in 1..Len(UsageTokens) :
              LongLooking(UsageTokens[i]) /\ ExactOnes(UsageTokens[i], options) = {} =>
                  LET r == parse_long(SubSeq(UsageTokens, i, Len(UsageTokens)),
                                      options, DocoptLanguageError)
                  IN  /\ r.err = "" /\ Len(r.out) = 1
                      /\ r.out[1].long = PartitionEq(UsageTokens[i])[1]
                      /\ r.options = Append(options, r.out[1])

\* C21 happens: with --verbose and --version declared, --verb was parsed as
\* --verbose
C21_Witness ==
    /\ pc = "options_shortcut"
    /\ doc.usage = <<"prog [options]">>
    /\ argv = <<"--verb">>
    /\ ExactOnes("--verb", options) = {}
    /\ Cardinality(PrefixedOnes("--verb", options)) = 1
    /\ Cardinality(PrefixedOnes("--ver", options)) = 2
    /\ parsed_argv = <<Option("", "--verbose", 0, VBool(TRUE))>>

\* the scan of parse_argv comes to the token at position i of argv: the
\* tokens before it are parsed, the last of them taking no value from i, and
\* none of them ended the parsing of options
Met(i) ==
    LET before == parse_argv(SubSeq(argv, 1, i - 1), options, flags.options_first)
    IN  /\ before.err = ""
        /\ \A j \in 1..Len(before.leaves) :
              before.leaves[j].kind = "Argument" =>
                  ~flags.options_first /\ before.leaves[j].value # VStr("--")

\* no value follows the token at position i of argv
NothingFollows(i) == i = Len(argv) \/ argv[i + 1] = "--"

\* the options of the registry with the short name -c
ShortOnes(c) == {k \in 1..Len(options) : options[k].short = "-" \o c}

\* the token at position i of argv is a long option without =value that
\* stands for one option, which takes an argument
LongNeedsValue(i) ==
    LET t == argv[i]
        ones == IF ExactOnes(t, options) # {} THEN ExactOnes(t, options)
                ELSE PrefixedOnes(t, options)
    IN  /\ LongLooking(t) /\ PartitionEq(t)[2] = ""
        /\ Cardinality(ones) = 1
        /\ \A k \in ones : options[k].argcount = 1

\* the token at position i of argv is a run of short options, the last of
\* them one that takes an argument, those before it taking none
ShortNeedsValue(i) ==
    LET t == argv[i]
        run == LStripDash(t)
    IN  /\ OptionLooking(t) /\ ~LongLooking(t) /\ run # ""
        /\ \A j \in 1..(Len(run) - 1) :
              /\ Cardinality(ShortOnes(Char(run, j))) <= 1
              /\ \A k \in ShortOnes(Char(run, j)) : options[k].argcount = 0
        /\ Cardinality(ShortOnes(Char(run, Len(run)))) = 1
        /\ \A k \in ShortOnes(Char(run, Len(run))) : options[k].argcount = 1

\* C22: when the scan of parse_argv comes to an option that takes an argument,
\* written without a value and followed by nothing or by --, docopt raises
\* DocoptExit at parse_argv, before any match; and parse_argv makes no Option
\* that takes an argument with a value that is not a str.
C22_MissingValueRaises ==
    [][pc = "parse_argv" =>
          /\ (\E i \in 1..Len(argv) :
                 /\ Met(i) /\ NothingFollows(i)
                 /\ LongNeedsValue(i) \/ ShortNeedsValue(i))
               => pc' = "done" /\ outcome' = DocoptExit /\ mres' = NoMatch
          /\ \A j \in 1..Len(parsed_argv') :
                parsed_argv'[j].kind = "Option" /\ parsed_argv'[j].argcount = 1
                  => parsed_argv'[j].value.t = "str"]_vars

\* C22 happens: --name, which takes an argument, was followed by -- and
\* DocoptExit was raised with nothing matched
C22_Witness ==
    /\ pc = "done" /\ outcome = DocoptExit /\ mres = NoMatch
    /\ argv = <<"x", "--name", "--">>
    /\ Met(2) /\ NothingFollows(2) /\ LongNeedsValue(2)

\* the closer of an opening bracket
Closer(t) == IF t = "(" THEN ")" ELSE "]"

\* the brackets among a list of tokens are balanced: every closer closes the
\* last opener still open, which is of its kind, and no opener stays open;
\* open is the list of the openers still open, the last one first
RECURSIVE BalancedFrom(_, _)
BalancedFrom(toks, open) ==
    IF toks = <<>> THEN open = <<>>
    ELSE IF toks[1] \in {"(", "["} THEN BalancedFrom(Tail(toks), <<toks[1]>> \o open)
    ELSE IF toks[1] \in {")", "]"}
    THEN /\ open # <<>>
         /\ Closer(open[1]) = toks[1]
         /\ BalancedFrom(Tail(toks), Tail(open))
    ELSE BalancedFrom(Tail(toks), open)

Balanced(toks) == BalancedFrom(toks, <<>>)

\* C23: parse_pattern returns a tree only for a usage whose brackets are
\* balanced; for one with an opener that its own closer does not close, or
\* with a closer left over, docopt raises DocoptLanguageError at parse_pattern
\* and has no tree.
C23_UnbalancedUsageRaises ==
    [][pc = "parse_pattern" =>
          /\ pc' = "parse_argv" => Balanced(UsageTokens)
          /\ ~Balanced(UsageTokens) =>
                /\ pc' = "done" /\ outcome' = DocoptLanguageError
                /\ pattern'.tree = NoPattern.tree]_vars

\* C23 happens: "prog a )" leaves a ) after the top-level expr, and docopt has
\* raised DocoptLanguageError
C23_Witness ==
    /\ pc = "done" /\ outcome = DocoptLanguageError
    /\ doc.usage = <<"prog a )">>
    /\ UsageTokens = <<"(", "a", ")", ")">>
    /\ ~Balanced(UsageTokens)
    /\ pattern.tree = NoPattern.tree

\* the nodes of a tree, its leaves included
RECURSIVE Nodes(_)
Nodes(node) ==
    IF IsLeafNode(node) THEN {node}
    ELSE {node} \cup UNION {Nodes(node.children[i]) : i \in 1..Len(node.children)}

\* the left, collected and heap pattern.match starts with
StartOfMatch ==
    [l |-> ArgvObjects(pattern.tab, parsed_argv), c |-> <<>>,
     h |-> Heap(pattern.tab, parsed_argv)]

\* what the match of the node n leaves of the start, when it matches
AfterNode(n) ==
    LET r == match(n, StartOfMatch.l, StartOfMatch.c, StartOfMatch.h)
    IN  IF r.err = "" /\ r.m THEN {[l |-> r.l, c |-> r.c, h |-> r.h]} ELSE {}

\* the states a match of a node of the tree is called in: the start, and what
\* the match of another node of the tree has left of it
CallStates == {StartOfMatch} \cup UNION {AfterNode(n) : n \in Nodes(pattern.tree)}

\* the objects of left and collected have in h2 the value they have in h1
SameValues(s, h2) == \A i \in Range(s.l) \cup Range(s.c) : h2[i] = s.h[i]

\* C24: a Required.match that fails returns the left and the collected it was
\* given, and every leaf of them holds the value it held before the call.
C24_RequiredFailureLeavesNoTrace ==
    pc = "match" =>
        \A n \in Nodes(pattern.tree) : \A s \in CallStates :
            n.kind = "Required" =>
                LET r == match(n, s.l, s.c, s.h)
                IN  r.err = "" /\ ~r.m =>
                        r.l = s.l /\ r.c = s.c /\ SameValues(s, r.h)

\* the outcome of the child k of an Either matched alone in the state s
Alone(n, k, s) == match(n.children[k], s.l, s.c, s.h)

\* the child Either.match chooses in the state s: the first of those that
\* match with the shortest left
Chosen(n, s) ==
    CHOOSE k \in 1..Len(n.children) :
        /\ Alone(n, k, s).m
        /\ \A j \in 1..Len(n.children) :
              Alone(n, j, s).m =>
                  \/ Len(Alone(n, k, s).l) < Len(Alone(n, j, s).l)
                  \/ Len(Alone(n, k, s).l) = Len(Alone(n, j, s).l) /\ k <= j

\* the leaves (with their values) of a list of objects
LeavesIn(objs, h) == [i \in 1..Len(objs) |-> h[objs[i]]]

\* C25: what Either.match returns is what the child it chooses returns when
\* it alone is matched in the same state: the same left and the same
\* collected, with the same values.
C25_EitherChildrenIndependent ==
    pc = "match" =>
        \A n \in Nodes(pattern.tree) : \A s \in CallStates :
            n.kind = "Either" =>
                LET r == match(n, s.l, s.c, s.h)
                IN  r.err = "" /\ r.m =>
                        LET alone == Alone(n, Chosen(n, s), s)
                        IN  /\ LeavesIn(r.l, r.h) = LeavesIn(alone.l, alone.h)
                            /\ LeavesIn(r.c, r.h) = LeavesIn(alone.c, alone.h)

\* the state after the last of the successive matches of child, from the
\* state s on, that matches: s itself when the next one fails, the state it
\* leaves when it matches and leaves left as it was
RECURSIVE LastRepetition(_, _)
LastRepetition(child, s) ==
    LET r == match(child, s.l, s.c, s.h)
        after == [l |-> r.l, c |-> r.c, h |-> r.h]
    IN  IF ~r.m THEN s
        ELSE IF r.l = s.l THEN after
        ELSE LastRepetition(child, after)

\* C26: OneOrMore.match matches exactly when its child matches once; it then
\* returns the left and the collected, with their values, of the last
\* repetition that matched, and otherwise the left and collected it was given.
C26_OneOrMoreReturnsLastRepetition ==
    pc = "match" =>
        \A n \in Nodes(pattern.tree) : \A s \in CallStates :
            n.kind = "OneOrMore" /\ Len(n.children) = 1 =>
                LET r == match(n, s.l, s.c, s.h)
                    first == match(n.children[1], s.l, s.c, s.h)
                    last == LastRepetition(n.children[1], s)
                IN  /\ r.m <=> first.m
                    /\ r.m => /\ LeavesIn(r.l, r.h) = LeavesIn(last.l, last.h)
                              /\ LeavesIn(r.c, r.h) = LeavesIn(last.c, last.h)
                    /\ ~r.m => r.l = s.l /\ r.c = s.c

(***************************************************************************)
(* C27: termination of OneOrMore.match                                     *)
(***************************************************************************)
\* more rounds than the while loop of OneOrMore.match can take on the left
\* its first round was given: the loop is followed no further than this
RoundsCap(s, rounds) ==
    Len(IF rounds = <<>> THEN s.l ELSE rounds[1].before) + 3

\* the while loop without "if l_ == l: break": it goes on until the child fails
RECURSIVE RepetitionsUntilFailure(_, _, _, _)
RepetitionsUntilFailure(child, s, first_l_, rounds) ==
    LET r == match(child, s.l, s.c, s.h)
        round == [before |-> s.l, m |-> r.m, l |-> r.l, c |-> r.c, h |-> r.h]
    IN  IF Len(rounds) + 1 >= RoundsCap(s, rounds) \/ ~r.m
        THEN Append(rounds, round)
        ELSE RepetitionsUntilFailure(child, [l |-> r.l, c |-> r.c, h |-> r.h],
                                     <<FALSE, r.l>>, Append(rounds, round))

\* OneOrMore.match: the rounds of the while loop, each with the left it was
\* given and what the child returned; first_l_ says that l_ is still None
RECURSIVE Repetitions(_, _, _, _)
Repetitions(child, s, first_l_, rounds) ==
    LET r == match(child, s.l, s.c, s.h)
        round == [before |-> s.l, m |-> r.m, l |-> r.l, c |-> r.c, h |-> r.h]
    IN  IF \/ Len(rounds) + 1 >= RoundsCap(s, rounds)
           \/ ~r.m
           \/ (~first_l_[1] /\ ListEq(first_l_[2], r.l, r.h))
        THEN Append(rounds, round)
        ELSE Repetitions(child, [l |-> r.l, c |-> r.c, h |-> r.h],
                         <<FALSE, r.l>>, Append(rounds, round))

\* C27: the while loop of OneOrMore.match takes at most len(left) + 2 rounds:
\* every round fails, or returns the leftover it was given, or returns a
\* strictly shorter one; the loop ends with the first round that fails or
\* that returns the leftover of the round before, and what OneOrMore.match
\* returns is what that round returned.
C27_OneOrMoreTerminates ==
    pc = "match" =>
        \A n \in Nodes(pattern.tree) : \A s \in CallStates :
            (n.kind = "OneOrMore" /\ Len(n.children) = 1) =>
                LET rounds == Repetitions(n.children[1], s, <<TRUE, <<>>>>, <<>>)
                    last == rounds[Len(rounds)]
                    r == match(n, s.l, s.c, s.h)
                IN  /\ Len(rounds) <= Len(s.l) + 2
                    /\ \A i \in 1..Len(rounds) :
                          \/ ~rounds[i].m
                          \/ rounds[i].l = rounds[i].before
                          \/ Len(rounds[i].l) < Len(rounds[i].before)
                    /\ \/ ~last.m
                       \/ Len(rounds) > 1 /\ last.l = rounds[Len(rounds) - 1].l
                    /\ r.err = ""
                    /\ r.m => r.l = last.l /\ r.c = last.c /\ r.h = last.h

\* a OneOrMore whose child matches without consuming anything: the loop ends
\* after its second round; and one that took three rounds or more
C27_Witness ==
    /\ pc = "match"
    /\ \E n \in Nodes(pattern.tree) : \E s \in CallStates :
          /\ n.kind = "OneOrMore" /\ Len(n.children) = 1
          /\ n.children[1].kind \in {"Optional", "OptionsShortcut"}
          /\ s.l # <<>>
          /\ LET rounds == Repetitions(n.children[1], s, <<TRUE, <<>>>>, <<>>)
             IN  /\ Len(rounds) = 2
                 /\ rounds[1].m /\ rounds[1].l = s.l
                 /\ rounds[2].m /\ rounds[2].l = s.l
    /\ \E n \in Nodes(pattern.tree) : \E s \in CallStates :
          /\ n.kind = "OneOrMore" /\ Len(n.children) = 1
          /\ Len(Repetitions(n.children[1], s, <<TRUE, <<>>>>, <<>>)) >= 3

(***************************************************************************)
(* C28: what LeafPattern.match does to left                                *)
(***************************************************************************)
\* the object e of left is one the leaf self matches: an Argument leaf takes
\* any positional, a Command a positional that holds its name, an Option an
\* option of its name
MatchesLeaf(self, e) ==
    CASE self.kind = "Argument" -> e.kind = "Argument"
      [] self.kind = "Command" -> e.kind = "Argument" /\ e.value = VStr(self.name)
      [] self.kind = "Option" -> Name(e) = Name(self)

\* the leaf nodes of the tree
LeafNodes == {n \in Nodes(pattern.tree) : n.kind = "Leaf"}

\* C28: when a leaf matches, the left it returns is the left it was given
\* without one element, the first that the leaf matches, the others in their
\* order; when it does not match it returns the left and the collected it was
\* given and the value of no object has changed.
C28_LeafRemovesFirstMatch ==
    pc = "match" =>
        \A n \in LeafNodes : \A s \in CallStates :
            LET self == s.h[n.ref]
                r == match(n, s.l, s.c, s.h)
            IN  /\ r.err = ""
                /\ r.m =>
                      \E p \in 1..Len(s.l) :
                          /\ MatchesLeaf(self, s.h[s.l[p]])
                          /\ \A q \in 1..(p - 1) : ~MatchesLeaf(self, s.h[s.l[q]])
                          /\ Len(r.l) = Len(s.l) - 1
                          /\ \A i \in 1..(p - 1) : r.l[i] = s.l[i]
                          /\ \A i \in p..Len(r.l) : r.l[i] = s.l[i + 1]
                /\ ~r.m => r.l = s.l /\ r.c = s.c /\ r.h = s.h

\* a leaf takes an element that is not the first of left and another stays
\* behind it, and a leaf misses on a left that is not empty
C28_Witness ==
    /\ pc = "match"
    /\ \E n \in LeafNodes : \E s \in CallStates :
          LET r == match(n, s.l, s.c, s.h)
          IN  /\ r.m
              /\ Len(s.l) >= 3
              /\ r.l = <<s.l[1], s.l[3]>> \o SubSeq(s.l, 4, Len(s.l))
    /\ \E n \in LeafNodes : \E s \in CallStates :
          s.l # <<>> /\ ~match(n, s.l, s.c, s.h).m

(***************************************************************************)
(* C29: which positional a Command takes                                   *)
(***************************************************************************)
\* the Command leaves of the tree
CommandNodes == {n \in LeafNodes : pattern.tab[n.ref].kind = "Command"}

\* the positions of left that hold a positional
PositionalPositions(s) == {p \in 1..Len(s.l) : s.h[s.l[p]].kind = "Argument"}

\* the positions of left that hold a positional whose value is the name
NamedBy(self, s) == {p \in PositionalPositions(s) : s.h[s.l[p]].value = VStr(self.name)}

\* the least element of a set of positions that is not empty
Least(S) == CHOOSE p \in S : \A q \in S : p <= q

\* C29 as stated: a Command matches exactly when some positional of left
\* holds its name.
C29_CommandMatchesAnyPositional ==
    pc = "match" =>
        \A n \in CommandNodes : \A s \in CallStates :
            match(n, s.l, s.c, s.h).m <=> NamedBy(s.h[n.ref], s) # {}

\* C29: a Command matches exactly when the first positional of left holds its
\* name, whatever the later ones hold; it then takes that positional out of
\* left, and the Command it collects holds True unless the command is counted.
C29_CommandMatchesFirstPositional ==
    pc = "match" =>
        \A n \in CommandNodes : \A s \in CallStates :
            LET self == s.h[n.ref]
                r == match(n, s.l, s.c, s.h)
                hit == /\ PositionalPositions(s) # {}
                       /\ Least(PositionalPositions(s)) \in NamedBy(self, s)
            IN  /\ r.m <=> hit
                /\ r.m =>
                      LET p == Least(PositionalPositions(s))
                      IN  /\ r.l = SubSeq(s.l, 1, p - 1) \o SubSeq(s.l, p + 1, Len(s.l))
                          /\ self.value.t # "int" =>
                                /\ r.c = Append(s.c, Len(s.h) + 1)
                                /\ r.h[Len(s.h) + 1] = Command(self.name, VBool(TRUE))

\* a Command takes the first positional of left, and a Command fails on a left
\* whose second positional holds its name
C29_Witness ==
    /\ pc = "match"
    /\ \E n \in CommandNodes : \E s \in CallStates :
          /\ match(n, s.l, s.c, s.h).m
          /\ s.h[n.ref].value.t # "int"
    /\ \E n \in CommandNodes : \E s \in CallStates :
          /\ ~match(n, s.l, s.c, s.h).m
          /\ NamedBy(s.h[n.ref], s) # {}

(***************************************************************************)
(* C30: a run of short options in argv                                     *)
(***************************************************************************)
\* the token at position i of argv is a run of short options, none of them
\* declared twice
ShortRun(i) ==
    LET t == argv[i]
        run == LStripDash(t)
    IN  /\ OptionLooking(t) /\ ~LongLooking(t) /\ run # ""
        /\ \A j \in 1..Len(run) : Cardinality(ShortOnes(Char(run, j))) <= 1

\* the positions of the run whose character is an option that takes an argument
Valued(run) ==
    {j \in 1..Len(run) : \E k \in ShortOnes(Char(run, j)) : options[k].argcount = 1}

\* C30: parse_shorts on a run of short options of argv makes one Option per
\* character, left to right, up to the first one that takes an argument.  The
\* options before it hold True and take nothing.  The one that takes an
\* argument holds the characters that follow it in the token when there are
\* some, and the next token of argv otherwise (DocoptExit when there is none
\* or it is --).  A run in which no option takes an argument leaves the next
\* token alone.  These are the leaves parse_argv returns for the token.
C30_ShortRunParsedLeftToRight ==
    pc = "parse_argv" =>
        \A i \in 1..Len(argv) :
            ShortRun(i) =>
                LET run == LStripDash(argv[i])
                    tokens == SubSeq(argv, i, Len(argv))
                    r == parse_shorts(tokens, options, DocoptExit)
                    last == IF Valued(run) = {} THEN Len(run) ELSE Least(Valued(run))
                    flags_ == IF Valued(run) = {} THEN last ELSE last - 1
                    before == parse_argv(SubSeq(argv, 1, i - 1), options,
                                         flags.options_first)
                    all == parse_argv(argv, options, flags.options_first)
                IN  /\ r.err = "" =>
                          /\ Len(r.out) = last
                          /\ \A j \in 1..last :
                                r.out[j].kind = "Option"
                                /\ r.out[j].short = "-" \o Char(run, j)
                          /\ \A j \in 1..flags_ :
                                r.out[j].argcount = 0 /\ r.out[j].value = VBool(TRUE)
                          /\ Met(i) /\ all.err = "" =>
                                SubSeq(all.leaves, Len(before.leaves) + 1,
                                       Len(before.leaves) + last) = r.out
                    /\ Valued(run) = {} => r.err = "" /\ r.toks = Tail(tokens)
                    /\ Valued(run) # {} /\ last < Len(run) =>
                          /\ r.err = "" /\ r.toks = Tail(tokens)
                          /\ r.out[last].argcount = 1
                          /\ r.out[last].value = VStr(SubSeq(run, last + 1, Len(run)))
                    /\ Valued(run) # {} /\ last = Len(run) =>
                          IF NothingFollows(i) THEN r.err = DocoptExit
                          ELSE /\ r.err = "" /\ r.toks = Tail(Tail(tokens))
                               /\ r.out[last].argcount = 1
                               /\ r.out[last].value = VStr(argv[i + 1])

\* C30 happens: argv was -vn x, which parse_argv returned as -v holding True
\* and -n holding x
C30_Witness ==
    /\ argv = <<"-vn", "x">>
    /\ pc \notin {"parse_section", "parse_defaults", "parse_pattern", "parse_argv"}
    /\ Len(parsed_argv) = 2
    /\ parsed_argv[1].short = "-v" /\ parsed_argv[1].value = VBool(TRUE)
    /\ parsed_argv[2].short = "-n" /\ parsed_argv[2].value = VStr("x")
====
